---- MODULE Spec2Model ----
(***************************************************************************)
(* A model of the jsonschema library: the schema tree, the Walker          *)
(* (walk.go) and the reference resolver (resolve.go).                      *)
(*                                                                         *)
(* A Go string is a sequence of one-character strings, so that splitting,  *)
(* joining, escaping and cleaning are computed character by character.     *)
(***************************************************************************)
EXTENDS Integers, Sequences, FiniteSets, TLC

VARIABLES
    tree,       \* the schema handed to Walk (the storage the handles alias)
    pc,         \* where Walk stands: "start", "enter", "loop", "done"
    cur,        \* the arguments of the walkRec call about to be entered
    stack,      \* the walkRec frames: scope, slot and the nodes still to visit
    cancelled,  \* ctx.Done() is closed
    calls,      \* history: every call of the visitor, in order
    result,     \* what Walk returned ("none" while it runs)
    writes,     \* how many times the visitor has overwritten its schema
    resolving,  \* the arguments of the call of ResolveReference
    resolved,   \* <<>> until ResolveReference has ended, then <<its outcome>>
    document,   \* the document of the starting schema, as it stands in memory
    identifiers, \* <<>> until ComputeIdentifiers has returned, then <<its map>>
    heap,       \* the cells allocated for maps, slices and pointed-to values
    srcSchema,  \* <<>>, or <<the argument of Copy>>
    dstSchema,  \* <<>> until Copy has returned, then <<its result>>
    snapshot,   \* history: the values of src and dst when Copy returned
    validating, \* the function of ptr.go or jsonptr/ptr.go called and its argument
    validated   \* <<>> until that function has returned, then <<its result>>

copyVars == <<heap, srcSchema, dstSchema, snapshot>>
ptrVars == <<validating, validated>>

vars ==
    <<tree, pc, cur, stack, cancelled, calls, result, writes, resolving, resolved, document,
      identifiers, copyVars, ptrVars>>

(***************************************************************************)
(* Bounds of the model.                                                    *)
(***************************************************************************)
MaxDepth == 2
MaxWrites == 1

(***************************************************************************)
(* Strings.                                                                *)
(***************************************************************************)
Slash == "/"

RECURSIVE Split(_, _)
\* strings.Split(s, sep) for a one-character separator
Split(s, sep) ==
    IF \A i \in 1..Len(s) : s[i] # sep
    THEN <<s>>
    ELSE LET i == CHOOSE i \in 1..Len(s) :
                      s[i] = sep /\ \A j \in 1..(i - 1) : s[j] # sep
         IN  <<SubSeq(s, 1, i - 1)>> \o Split(SubSeq(s, i + 1, Len(s)), sep)

RECURSIVE JoinSegs(_, _)
\* strings.Join(segs, sep)
JoinSegs(segs, sep) ==
    IF Len(segs) = 0 THEN <<>>
    ELSE IF Len(segs) = 1 THEN segs[1]
    ELSE segs[1] \o <<sep>> \o JoinSegs(Tail(segs), sep)

RECURSIVE Itoa(_)
\* strconv.Itoa for a natural number
Itoa(n) ==
    LET digit(d) == <<"0", "1", "2", "3", "4", "5", "6", "7", "8", "9">>[d + 1]
    IN  IF n < 10 THEN <<digit(n)>> ELSE Itoa(n \div 10) \o <<digit(n % 10)>>

RECURSIVE ReplaceAll(_, _, _)
\* strings.ReplaceAll(s, old, new) for a two-character old
ReplaceAll(s, old, new) ==
    IF Len(s) < 2 THEN s
    ELSE IF SubSeq(s, 1, 2) = old THEN new \o ReplaceAll(SubSeq(s, 3, Len(s)), old, new)
    ELSE <<s[1]>> \o ReplaceAll(Tail(s), old, new)

\* strings.Index for one character: its first index in s, or 0
IndexOf(s, c) ==
    IF \E i \in 1..Len(s) : s[i] = c
    THEN CHOOSE i \in 1..Len(s) : s[i] = c /\ \A j \in 1..(i - 1) : s[j] # c
    ELSE 0

\* strings.LastIndex for one character: its last index in s, or 0
LastIndexOf(s, c) ==
    IF \E i \in 1..Len(s) : s[i] = c
    THEN CHOOSE i \in 1..Len(s) : s[i] = c /\ \A j \in (i + 1)..Len(s) : s[j] # c
    ELSE 0

HasPrefix(s, pre) == Len(pre) <= Len(s) /\ SubSeq(s, 1, Len(pre)) = pre
HasSuffix(s, suf) == Len(suf) <= Len(s) /\ SubSeq(s, Len(s) - Len(suf) + 1, Len(s)) = suf
TrimPrefix(s, pre) == IF HasPrefix(s, pre) THEN SubSeq(s, Len(pre) + 1, Len(s)) ELSE s
TrimSuffix(s, suf) == IF HasSuffix(s, suf) THEN SubSeq(s, 1, Len(s) - Len(suf)) ELSE s

DotDot == <<".", ".">>

RECURSIVE cleanSegs(_, _, _)
\* path.Clean's pass over the elements of a path: empty and "." elements are
\* dropped, ".." removes the element before it (or itself, at the root)
cleanSegs(segs, out, rooted) ==
    IF Len(segs) = 0 THEN out
    ELSE LET s == Head(segs)
             rest == Tail(segs)
         IN  IF s = <<>> \/ s = <<".">> THEN cleanSegs(rest, out, rooted)
             ELSE IF s = DotDot
             THEN IF Len(out) > 0 /\ out[Len(out)] # DotDot
                  THEN cleanSegs(rest, SubSeq(out, 1, Len(out) - 1), rooted)
                  ELSE IF rooted THEN cleanSegs(rest, out, rooted)
                  ELSE cleanSegs(rest, Append(out, s), rooted)
             ELSE cleanSegs(rest, Append(out, s), rooted)

\* path.Clean
pathClean(p) ==
    LET rooted == Len(p) > 0 /\ p[1] = Slash
        body == JoinSegs(cleanSegs(Split(p, Slash), <<>>, rooted), Slash)
        out == IF rooted THEN <<Slash>> \o body ELSE body
    IN  IF out = <<>> THEN <<".">> ELSE out

\* path.Join of two elements
pathJoin(a, b) ==
    IF a = <<>> /\ b = <<>> THEN <<>>
    ELSE IF a = <<>> THEN pathClean(b)
    ELSE IF b = <<>> THEN pathClean(a)
    ELSE pathClean(a \o <<Slash>> \o b)

(***************************************************************************)
(* net/url, for the references the model draws: an optional scheme made of *)
(* letters, an optional "//host", a path and an optional "#fragment"; no   *)
(* query, no user, no opaque part and nothing that needs percent-escaping. *)
(***************************************************************************)
Hash == "#"
Colon == ":"
Letters ==
    { "a", "b", "c", "d", "e", "f", "g", "h", "i", "j", "k", "l", "m",
      "n", "o", "p", "q", "r", "s", "t", "u", "v", "w", "x", "y", "z" }

URL(scheme, host, path, fragment) ==
    [ Scheme |-> scheme, Host |-> host, Path |-> path, Fragment |-> fragment ]

\* url.getScheme: the letters before the first ":", if only letters stand there
getScheme(raw) ==
    LET i == IndexOf(raw, Colon)
    IN  IF i > 1 /\ \A j \in 1..(i - 1) : raw[j] \in Letters
        THEN [ scheme |-> SubSeq(raw, 1, i - 1), rest |-> SubSeq(raw, i + 1, Len(raw)) ]
        ELSE [ scheme |-> <<>>, rest |-> raw ]

\* url.Parse
urlParse(raw) ==
    LET h == IndexOf(raw, Hash)
        u == IF h = 0 THEN raw ELSE SubSeq(raw, 1, h - 1)
        frag == IF h = 0 THEN <<>> ELSE SubSeq(raw, h + 1, Len(raw))
        sch == getScheme(u)
        rest == sch.rest
    IN  IF HasPrefix(rest, <<Slash, Slash>>)
        THEN LET authority == SubSeq(rest, 3, Len(rest))
                 i == IndexOf(authority, Slash)
             IN  IF i = 0
                 THEN URL(sch.scheme, authority, <<>>, frag)
                 ELSE URL(sch.scheme, SubSeq(authority, 1, i - 1),
                          SubSeq(authority, i, Len(authority)), frag)
        ELSE URL(sch.scheme, <<>>, rest, frag)

\* (*URL).String
urlString(u) ==
    (IF u.Scheme # <<>> THEN u.Scheme \o <<Colon>> ELSE <<>>)
    \o (IF (u.Scheme # <<>> \/ u.Host # <<>>) /\ (u.Host # <<>> \/ u.Path # <<>>)
        THEN <<Slash, Slash>> \o u.Host ELSE <<>>)
    \o (IF u.Path # <<>> /\ u.Path[1] # Slash /\ u.Host # <<>> THEN <<Slash>> ELSE <<>>)
    \o u.Path
    \o (IF u.Fragment # <<>> THEN <<Hash>> \o u.Fragment ELSE <<>>)

\* (*URL).IsAbs
IsAbs(u) == u.Scheme # <<>>

RECURSIVE removeDotSegments(_, _, _)
\* the loop of url.resolvePath over the elements of the path: dst is what has
\* been written after the leading "/", first whether nothing stands there yet
removeDotSegments(elems, dst, first) ==
    IF elems = <<>> THEN dst
    ELSE LET elem == Head(elems)
         IN  IF elem = <<".">> THEN removeDotSegments(Tail(elems), dst, FALSE)
             ELSE IF elem = DotDot
             THEN LET index == LastIndexOf(dst, Slash)
                  IN  IF index = 0
                      THEN removeDotSegments(Tail(elems), <<>>, TRUE)
                      ELSE removeDotSegments(Tail(elems), SubSeq(dst, 1, index - 1), first)
             ELSE removeDotSegments(Tail(elems),
                                    (IF first THEN dst ELSE Append(dst, Slash)) \o elem, FALSE)

\* url.resolvePath
resolvePath(base, ref) ==
    LET full == IF ref = <<>> THEN base
                ELSE IF ref[1] # Slash THEN SubSeq(base, 1, LastIndexOf(base, Slash)) \o ref
                ELSE ref
        elems == Split(full, Slash)
        last == elems[Len(elems)]
        r == <<Slash>> \o removeDotSegments(elems, <<>>, TRUE)
                 \o (IF last = <<".">> \/ last = DotDot THEN <<Slash>> ELSE <<>>)
    IN  IF full = <<>> THEN <<>>
        ELSE IF Len(r) > 1 /\ r[2] = Slash THEN Tail(r)
        ELSE r

\* (*URL).ResolveReference
urlResolveReference(base, ref) ==
    LET scheme == IF ref.Scheme = <<>> THEN base.Scheme ELSE ref.Scheme
    IN  IF ref.Scheme # <<>> \/ ref.Host # <<>>
        THEN URL(scheme, ref.Host, resolvePath(ref.Path, <<>>), ref.Fragment)
        ELSE URL(scheme, base.Host, resolvePath(base.Path, ref.Path),
                 IF ref.Path = <<>> /\ ref.Fragment = <<>> THEN base.Fragment ELSE ref.Fragment)

(***************************************************************************)
(* The schema model.  A *Schema field holds <<>> (nil) or <<s>>; a []Schema  *)
(* field holds a sequence; a map[string]Schema field holds a function from  *)
(* its keys.  The keywords are spelled as the JSON tags spell them.         *)
(***************************************************************************)
kwNot == <<"n", "o", "t">>
kwIf == <<"i", "f">>
kwThen == <<"t", "h", "e", "n">>
kwElse == <<"e", "l", "s", "e">>
kwItems == <<"i", "t", "e", "m", "s">>
kwContains == <<"c", "o", "n", "t", "a", "i", "n", "s">>
kwAdditionalProperties == <<"a", "d", "d", "i", "t", "i", "o", "n", "a", "l", "P", "r", "o", "p", "e", "r", "t", "i", "e", "s">>
kwPropertyNames == <<"p", "r", "o", "p", "e", "r", "t", "y", "N", "a", "m", "e", "s">>
kwUnevaluatedItems == <<"u", "n", "e", "v", "a", "l", "u", "a", "t", "e", "d", "I", "t", "e", "m", "s">>
kwUnevaluatedProperties == <<"u", "n", "e", "v", "a", "l", "u", "a", "t", "e", "d", "P", "r", "o", "p", "e", "r", "t", "i", "e", "s">>
kwContentSchema == <<"c", "o", "n", "t", "e", "n", "t", "S", "c", "h", "e", "m", "a">>
kwAllOf == <<"a", "l", "l", "O", "f">>
kwAnyOf == <<"a", "n", "y", "O", "f">>
kwOneOf == <<"o", "n", "e", "O", "f">>
kwPrefixItems == <<"p", "r", "e", "f", "i", "x", "I", "t", "e", "m", "s">>
kwDefs == <<"$", "d", "e", "f", "s">>
kwDependentSchemas == <<"d", "e", "p", "e", "n", "d", "e", "n", "t", "S", "c", "h", "e", "m", "a", "s">>
kwProperties == <<"p", "r", "o", "p", "e", "r", "t", "i", "e", "s">>
kwPatternProperties == <<"p", "a", "t", "t", "e", "r", "n", "P", "r", "o", "p", "e", "r", "t", "i", "e", "s">>

\* the single-schema keywords, in the order walk.go lists them
children ==
    << [keyword |-> kwNot, field |-> "Not"],
       [keyword |-> kwIf, field |-> "If"],
       [keyword |-> kwThen, field |-> "Then"],
       [keyword |-> kwElse, field |-> "Else"],
       [keyword |-> kwItems, field |-> "Items"],
       [keyword |-> kwContains, field |-> "Contains"],
       [keyword |-> kwAdditionalProperties, field |-> "AdditionalProperties"],
       [keyword |-> kwPropertyNames, field |-> "PropertyNames"],
       [keyword |-> kwUnevaluatedItems, field |-> "UnevaluatedItems"],
       [keyword |-> kwUnevaluatedProperties, field |-> "UnevaluatedProperties"],
       [keyword |-> kwContentSchema, field |-> "ContentSchema"] >>

\* the []Schema keywords, in the order nodes appends them
sliceKeywords ==
    << [keyword |-> kwAllOf, field |-> "AllOf"],
       [keyword |-> kwAnyOf, field |-> "AnyOf"],
       [keyword |-> kwOneOf, field |-> "OneOf"],
       [keyword |-> kwPrefixItems, field |-> "PrefixItems"] >>

\* the map[string]Schema keywords, in the order nodes appends them
mapKeywords ==
    << [keyword |-> kwDefs, field |-> "Defs"],
       [keyword |-> kwDependentSchemas, field |-> "DependentSchemas"],
       [keyword |-> kwProperties, field |-> "Properties"],
       [keyword |-> kwPatternProperties, field |-> "PatternProperties"] >>

\* Schema{}: the zero value, which is also the schema True
True ==
    [ ID |-> <<>>,
      Ref |-> <<>>,
      Anchor |-> <<>>,
      Comment |-> <<>>,
      Not |-> <<>>,
      If |-> <<>>,
      Then |-> <<>>,
      Else |-> <<>>,
      Items |-> <<>>,
      Contains |-> <<>>,
      AdditionalProperties |-> <<>>,
      PropertyNames |-> <<>>,
      UnevaluatedItems |-> <<>>,
      UnevaluatedProperties |-> <<>>,
      ContentSchema |-> <<>>,
      AllOf |-> <<>>,
      AnyOf |-> <<>>,
      OneOf |-> <<>>,
      PrefixItems |-> <<>>,
      Defs |-> <<>>,
      DependentSchemas |-> <<>>,
      Properties |-> <<>>,
      PatternProperties |-> <<>> ]

\* the schema False
False == [True EXCEPT !.Not = <<True>>]


(***************************************************************************)
(* Slots.  A slot of a tree is the place of one subschema: the sequence of *)
(* steps that leads to it from the root.  A step names the Go field and,   *)
(* for a slice or a map, the index (from 1) or the key.                    *)
(***************************************************************************)
ptrStep(field) == [kind |-> "ptr", field |-> field, idx |-> 0, key |-> <<>>]
sliceStep(field, i) == [kind |-> "slice", field |-> field, idx |-> i, key |-> <<>>]
mapStep(field, k) == [kind |-> "map", field |-> field, idx |-> 0, key |-> k]

\* the subschema one step below s
Child(s, st) ==
    IF st.kind = "ptr" THEN s[st.field][1]
    ELSE IF st.kind = "slice" THEN s[st.field][st.idx]
    ELSE s[st.field][st.key]

\* s with the subschema one step below it overwritten
SetChild(s, st, v) ==
    IF st.kind = "ptr" THEN [s EXCEPT ![st.field] = <<v>>]
    ELSE IF st.kind = "slice" THEN [s EXCEPT ![st.field] = [@ EXCEPT ![st.idx] = v]]
    ELSE [s EXCEPT ![st.field] = [@ EXCEPT ![st.key] = v]]

RECURSIVE SubAt(_, _)
SubAt(s, path) ==
    IF path = <<>> THEN s ELSE SubAt(Child(s, Head(path)), Tail(path))

RECURSIVE SetAt(_, _, _)
SetAt(s, path, v) ==
    IF path = <<>> THEN v
    ELSE SetChild(s, Head(path), SetAt(Child(s, Head(path)), Tail(path), v))

\* every enumeration of a finite set: the orders in which Go may range a map
Perms(S) ==
    { p \in [1..Cardinality(S) -> S] :
        \A i, j \in 1..Cardinality(S) : i # j => p[i] # p[j] }

FieldOf(keyword) ==
    LET all == children \o sliceKeywords \o mapKeywords
    IN  all[CHOOSE i \in 1..Len(all) : all[i].keyword = keyword].field

(***************************************************************************)
(* walk.go: the nodes of a schema.                                         *)
(***************************************************************************)
RECURSIVE singleChildren(_, _)
\* the loop over children in nodes: the fields that are set, in order
singleChildren(s, i) ==
    IF i > Len(children) THEN <<>>
    ELSE (IF s[children[i].field] = <<>> THEN <<>>
          ELSE << [keyword |-> children[i].keyword,
                   step |-> ptrStep(children[i].field)] >>)
         \o singleChildren(s, i + 1)

sliceChildren(keyword, arr) ==
    [ i \in 1..Len(arr) |->
        [keyword |-> keyword \o <<Slash>> \o Itoa(i - 1),
         step |-> sliceStep(FieldOf(keyword), i)] ]

\* one result per order in which the range over the map may run
mapChildren(keyword, m) ==
    { [ i \in 1..Len(order) |->
          [keyword |-> keyword \o <<Slash>> \o order[i],
           step |-> mapStep(FieldOf(keyword), order[i])] ] :
      order \in Perms(DOMAIN m) }

\* nodes without its four mapChildren lines
nodesNoMaps(s) ==
    { singleChildren(s, 1)
        \o sliceChildren(kwAllOf, s.AllOf)
        \o sliceChildren(kwAnyOf, s.AnyOf)
        \o sliceChildren(kwOneOf, s.OneOf)
        \o sliceChildren(kwPrefixItems, s.PrefixItems) }

nodes(s) ==
    { singleChildren(s, 1)
        \o sliceChildren(kwAllOf, s.AllOf)
        \o sliceChildren(kwAnyOf, s.AnyOf)
        \o sliceChildren(kwOneOf, s.OneOf)
        \o sliceChildren(kwPrefixItems, s.PrefixItems)
        \o d \o ds \o pr \o pp :
      d \in mapChildren(kwDefs, s.Defs),
      ds \in mapChildren(kwDependentSchemas, s.DependentSchemas),
      pr \in mapChildren(kwProperties, s.Properties),
      pp \in mapChildren(kwPatternProperties, s.PatternProperties) }


(***************************************************************************)
(* The inputs of Walk: the trees it is started on and what the visitor may *)
(* answer and write.                                                       *)
(***************************************************************************)
KeyA == <<"a">>
KeySlash == <<"a", "/", "b">>
KeyDotDot == <<".", ".">>
KeyTilde == <<"~", "1">>

Map1(k, x) == [ key \in {k} |-> x ]
Map2(k1, x1, k2, x2) == [ key \in {k1, k2} |-> IF key = k1 THEN x1 ELSE x2 ]

\* the schemas with one subtree x below them: a single-schema keyword, a
\* slice and a map of two keys
BasicShapes(x) ==
    { [True EXCEPT !.Not = <<x>>],
      [True EXCEPT !.AllOf = <<x, True>>],
      [True EXCEPT !.Defs = Map2(KeyA, x, KeySlash, True)] }

\* the same, and a schema with a single-schema keyword beside a map
Shapes(x) ==
    BasicShapes(x)
    \cup { [True EXCEPT !.Items = <<True>>, !.Properties = Map1(KeyDotDot, x)] }

RECURSIVE Trees(_, _)
\* the trees of depth at most d
Trees(d, basic) ==
    IF d = 0 THEN {True}
    ELSE {True} \cup UNION { IF basic THEN BasicShapes(x) ELSE Shapes(x) :
                             x \in Trees(d - 1, basic) }

\* what the visitor may store through its handle
Replacements ==
    { [True EXCEPT !.Comment = <<"r">>, !.Defs = Map1(KeyTilde, True)],
      [True EXCEPT !.AllOf = <<True>>] }

\* the visitor's results: nil, the two sentinels and two other errors
Errors == {"err1", "err2"}
Returns == {"nil", "Skip", "SkipAll"} \cup Errors

(***************************************************************************)
(* walk.go: Walk and walkRec.                                              *)
(***************************************************************************)
\* Scope{Pointer: "/"}
rootPointer == <<Slash>>

\* Store without n.set: what is written to the copy of a map value is dropped
StoreNoSet(t, path, kind, ret, after) ==
    IF kind = "map" THEN t ELSE SetAt(t, path, after)

\* the tree after the visitor wrote `after` through its handle and walkRec
\* ran n.set: the handle of a map value is the address of a copy, which only
\* n.set, after a nil result, stores into the map; every other handle is the
\* address of the subschema itself
Store(t, path, kind, ret, after) ==
    IF kind = "map" /\ ret # "nil" THEN t ELSE SetAt(t, path, after)

\* onErr with Skip ending the loop as SkipAll does
onErrSkipStops(ret) ==
    [ cont |-> FALSE,
      err |-> IF ret \in {"Skip", "SkipAll"} THEN "nil" ELSE ret ]

\* onErr with every error reset, not only the two sentinels
onErrSwallow(ret) ==
    [ cont |-> ret = "Skip", err |-> "nil" ]

\* walkRec on a result of fn that is not nil: whether the loop continues, and
\* the error walkRec returns if it does not
onErr(ret) ==
    [ cont |-> ret = "Skip",
      err |-> IF ret \in {"Skip", "SkipAll"} THEN "nil" ELSE ret ]

RECURSIVE Unwind(_)
\* the frames left once every walkRec whose loop has run out has returned nil
Unwind(st) ==
    IF st # <<>> /\ st[Len(st)].todo = <<>>
    THEN Unwind(SubSeq(st, 1, Len(st) - 1))
    ELSE st

\* the visitor is called with a value before and leaves a value after
Visits(before) ==
    {<<>>} \cup (IF writes < MaxWrites THEN { <<r>> : r \in Replacements \ {before} } ELSE {})

Call(path, ptr, kind, ret, before, after) ==
    [ path |-> path, ptr |-> ptr, kind |-> kind, ret |-> ret,
      before |-> before, after |-> after, cancelled |-> cancelled ]

\* the walk returns err
Return(err) ==
    /\ pc' = "done"
    /\ result' = err
    /\ stack' = <<>>
    /\ cur' = cur

\* the loops go on with the frames st, or the walk returns nil if none is left
Continue(st) ==
    IF Unwind(st) = <<>>
    THEN Return("nil")
    ELSE /\ pc' = "loop"
         /\ stack' = Unwind(st)
         /\ UNCHANGED <<result, cur>>

\* Walk without its call of fn for the root
WalkNoRoot ==
    /\ pc = "start"
    /\ pc' = "enter"
    /\ cur' = [Pointer |-> rootPointer, path |-> <<>>]
    /\ UNCHANGED <<tree, stack, cancelled, calls, result, writes, resolving, resolved, document, identifiers, copyVars, ptrVars>>

\* Walk: the visitor is called for the root, then walkRec
Walk ==
    /\ pc = "start"
    /\ \E ret \in Returns, w \in Visits(tree) :
         LET after == IF w = <<>> THEN tree ELSE w[1]
         IN  /\ calls' = Append(calls, Call(<<>>, rootPointer, "ptr", ret, tree, after))
             /\ writes' = IF w = <<>> THEN writes ELSE writes + 1
             /\ tree' = after
             /\ IF ret = "nil"
                THEN /\ pc' = "enter"
                     /\ cur' = [Pointer |-> rootPointer, path |-> <<>>]
                     /\ UNCHANGED <<stack, result>>
                ELSE Return(onErr(ret).err)
    /\ UNCHANGED <<cancelled, resolving, resolved, document, identifiers, copyVars, ptrVars>>

\* walkRec, up to its loop: the context is looked at, then the nodes are read
walkRec ==
    /\ pc = "enter"
    /\ IF cancelled
       THEN Return("canceled")
       ELSE \E ns \in nodes(SubAt(tree, cur.path)) :
              Continue(Append(stack, [Pointer |-> cur.Pointer, path |-> cur.path, todo |-> ns]))
    /\ UNCHANGED <<tree, cancelled, calls, writes, resolving, resolved, document, identifiers, copyVars, ptrVars>>

\* one turn of walkRec's loop: the visitor is called for the next node
walkRecLoop ==
    /\ pc = "loop"
    /\ LET top == stack[Len(stack)]
           n == Head(top.todo)
           path == Append(top.path, n.step)
           ptr == pathJoin(top.Pointer, n.keyword)
           before == SubAt(tree, path)
           rest == [stack EXCEPT ![Len(stack)].todo = Tail(top.todo)]
       IN  \E ret \in Returns, w \in Visits(before) :
             LET after == IF w = <<>> THEN before ELSE w[1]
             IN  /\ calls' = Append(calls, Call(path, ptr, n.step.kind, ret, before, after))
                 /\ writes' = IF w = <<>> THEN writes ELSE writes + 1
                 /\ tree' = Store(tree, path, n.step.kind, ret, after)
                 /\ IF ret = "nil"
                    THEN /\ pc' = "enter"
                         /\ cur' = [Pointer |-> ptr, path |-> path]
                         /\ stack' = rest
                         /\ UNCHANGED result
                    ELSE IF onErr(ret).cont
                    THEN Continue(rest)
                    ELSE IF onErr(ret).err = "nil"
                    THEN Continue(SubSeq(stack, 1, Len(stack) - 1))
                    ELSE Return(onErr(ret).err)
    /\ UNCHANGED <<cancelled, resolving, resolved, document, identifiers, copyVars, ptrVars>>

\* the context is cancelled, before Walk is called or while it runs
Cancel ==
    /\ pc # "done"
    /\ ~cancelled
    /\ cancelled' = TRUE
    /\ UNCHANGED <<tree, pc, cur, stack, calls, result, writes, resolving, resolved, document, identifiers, copyVars, ptrVars>>

\* Copy is not called, and no function of ptr.go
CopyIdle ==
    /\ heap = <<>>
    /\ srcSchema = <<>>
    /\ dstSchema = <<>>
    /\ snapshot = <<>>
    /\ validating = [fn |-> "", arg |-> <<>>]
    /\ validated = <<>>

\* ResolveReference is not called
ResolverIdle ==
    /\ resolving = [config |-> <<>>, ref |-> <<>>, current |-> <<>>]
    /\ resolved = <<>>
    /\ document = True
    /\ identifiers = <<>>
    /\ CopyIdle

Init ==
    /\ ResolverIdle
    /\ tree \in Trees(MaxDepth, FALSE)
    /\ pc = "start"
    /\ cur = [Pointer |-> rootPointer, path |-> <<>>]
    /\ stack = <<>>
    /\ cancelled = FALSE
    /\ calls = <<>>
    /\ result = "none"
    /\ writes = MaxWrites

Next == Walk \/ walkRec \/ walkRecLoop

\* Walk with a visitor that only reads, under a context that is never
\* cancelled
Spec == Init /\ [][Next]_vars

\* Walk with a visitor that may overwrite the schema it is handed
InitModify ==
    /\ ResolverIdle
    /\ tree \in Trees(MaxDepth, TRUE)
    /\ pc = "start"
    /\ cur = [Pointer |-> rootPointer, path |-> <<>>]
    /\ stack = <<>>
    /\ cancelled = FALSE
    /\ calls = <<>>
    /\ result = "none"
    /\ writes = 0

SpecModify == InitModify /\ [][Next]_vars

\* Walk under a context that may be cancelled at any moment, with a visitor
\* that only reads
InitCancel ==
    /\ ResolverIdle
    /\ tree \in Trees(MaxDepth, FALSE)
    /\ pc = "start"
    /\ cur = [Pointer |-> rootPointer, path |-> <<>>]
    /\ stack = <<>>
    /\ cancelled = FALSE
    /\ calls = <<>>
    /\ result = "none"
    /\ writes = MaxWrites

NextCancel == Walk \/ walkRec \/ walkRecLoop \/ Cancel

SpecCancel == InitCancel /\ [][NextCancel]_vars


(***************************************************************************)
(* The resolver (resolve.go).  A *Schema is <<>> (nil) or <<h>>, h naming   *)
(* the document the schema lies in and the slot it has there; the resolver  *)
(* never writes through a handle, so the address of a copy of a map value   *)
(* and the address of the value are not told apart.  A call ends in one of  *)
(* four ways: it returns a schema (nil included) and no error, it returns   *)
(* an error, it panics, or it never returns (the stack overflows).  What    *)
(* depends on the order in which a Go map is ranged is a set of outcomes.   *)
(***************************************************************************)
NilSchema == <<>>
Handle(doc, path) == <<[root |-> doc, path |-> path]>>
Deref(h) == SubAt(h[1].root, h[1].path)
ChildHandle(h, st) == Handle(h[1].root, Append(h[1].path, st))

Ok(h) == [kind |-> "ok", schema |-> h, msg |-> <<>>]
Err(m) == [kind |-> "err", schema |-> NilSchema, msg |-> m]
Panic == [kind |-> "panic", schema |-> NilSchema, msg |-> <<>>]
Overflow == [kind |-> "overflow", schema |-> NilSchema, msg |-> <<>>]

Digits == <<"0", "1", "2", "3", "4", "5", "6", "7", "8", "9">>

RECURSIVE digitsValue(_, _)
digitsValue(s, acc) ==
    IF s = <<>> THEN acc
    ELSE digitsValue(Tail(s), 10 * acc + (CHOOSE d \in 0..9 : Digits[d + 1] = Head(s)))

\* strconv.Atoi taking what is not a number for 0
AtoiLenient(s) ==
    [ok |-> TRUE, val |-> IF s \in { <<Digits[d]>> : d \in 1..10 }
                          THEN CHOOSE d \in 0..9 : <<Digits[d + 1]>> = s ELSE 0]

\* strconv.Atoi: an optional sign, then at least one digit and only digits
Atoi(s) ==
    LET signed == Len(s) > 0 /\ s[1] \in {"+", "-"}
        body == IF signed THEN Tail(s) ELSE s
        isNumber == body # <<>> /\ \A i \in 1..Len(body) : \E d \in 1..10 : Digits[d] = body[i]
    IN  IF ~isNumber THEN [ok |-> FALSE, val |-> 0]
        ELSE [ok |-> TRUE,
              val |-> IF signed /\ s[1] = "-" THEN 0 - digitsValue(body, 0)
                      ELSE digitsValue(body, 0)]

\* getUnescapedPath: nil is <<>>
getUnescapedPath(ref) ==
    LET trimmed == TrimSuffix(TrimPrefix(ref, <<Slash>>), <<Slash>>)
        path == Split(trimmed, Slash)
    IN  IF trimmed = <<>> THEN <<>>
        ELSE [ i \in 1..Len(path) |->
                 ReplaceAll(ReplaceAll(path[i], <<"~", "0">>, <<"~">>), <<"~", "1">>, <<Slash>>) ]

isRelative(path) == Len(path) > 0 /\ path[1] # <<Hash>>

\* ResolveConfig{}: no loader, no root, no document root
ResolveConfig(loader) ==
    [Loader |-> loader, Root |-> NilSchema, DocumentRoot |-> NilSchema, ignoreRefs |-> FALSE]

applyDefaults(config, schema) ==
    LET withRoot == IF config.Root = NilSchema THEN [config EXCEPT !.Root = schema] ELSE config
    IN  IF withRoot.DocumentRoot = NilSchema
        THEN [withRoot EXCEPT !.DocumentRoot = withRoot.Root]
        ELSE withRoot

\* Identifiers{...}
Identifiers(baseURI, plainURI, pointerURI, enclosing) ==
    [ BaseURI |-> baseURI, CanonResourcePlainURI |-> plainURI,
      CanonResourcePointerURI |-> pointerURI, EnclosingResourceURIs |-> enclosing ]

RECURSIVE ComputeIdentifiers(_)
RECURSIVE identifiersBelow(_, _, _)
RECURSIVE identify(_, _, _)

\* the visitor of ComputeIdentifiers without the nested call and without
\* Skip: the subschemas of an embedded resource are counted from the outer
\* document
identifyFlat(s, ptr, base) ==
    IF ptr = rootPointer \/ (s.ID = <<>> /\ s.Anchor = <<>>)
    THEN identifiersBelow(s, ptr, base)
    ELSE LET baseURI == IF s.ID # <<>>
                        THEN urlString(urlResolveReference(base, urlParse(s.ID)))
                        ELSE urlString(base)
             pointerURI == IF s.ID # <<>> THEN baseURI \o <<Hash>>
                           ELSE baseURI \o <<Hash>> \o ptr
             plainURI == IF s.Anchor # <<>> THEN baseURI \o <<Hash>> \o s.Anchor ELSE <<>>
             encURI == urlString(base) \o <<Hash>> \o ptr
         IN  { [ ptr |-> ptr,
                 ids |-> Identifiers(baseURI, plainURI, pointerURI,
                                     IF encURI # pointerURI THEN <<encURI>> ELSE <<>>) ] }
             \cup identifiersBelow(s, ptr, base)

\* the visitor of ComputeIdentifiers taking the records of the nested call as
\* they are, without the enclosing URI of this document
identifyInnerOnly(s, ptr, base) ==
    IF ptr = rootPointer \/ (s.ID = <<>> /\ s.Anchor = <<>>)
    THEN identifiersBelow(s, ptr, base)
    ELSE LET encURI == urlString(base) \o <<Hash>> \o ptr
             baseURI == IF s.ID # <<>>
                        THEN urlString(urlResolveReference(base, urlParse(s.ID)))
                        ELSE urlString(base)
             pointerURI == IF s.ID # <<>> THEN baseURI \o <<Hash>>
                           ELSE baseURI \o <<Hash>> \o ptr
             plainURI == IF s.Anchor # <<>> THEN baseURI \o <<Hash>> \o s.Anchor ELSE <<>>
             own == [ ptr |-> ptr,
                      ids |-> Identifiers(baseURI, plainURI, pointerURI,
                                          IF encURI # pointerURI THEN <<encURI>> ELSE <<>>) ]
         IN  IF s.ID # <<>>
             THEN { [ ptr |-> ptr \o e.ptr, ids |-> e.ids ]
                    : e \in ComputeIdentifiers([s EXCEPT !.ID = baseURI]) }
                  \cup {own}
             ELSE {own} \cup identifiersBelow(s, ptr, base)

\* the visitor of ComputeIdentifiers, called for the schema s at pointer ptr,
\* and what the walk below s adds unless the visitor returned Skip: the
\* entries written to m, as pairs of a key and its Identifiers
identify(s, ptr, base) ==
    IF ptr = rootPointer \/ (s.ID = <<>> /\ s.Anchor = <<>>)
    THEN identifiersBelow(s, ptr, base)
    ELSE LET encURI == urlString(base) \o <<Hash>> \o ptr
             baseURI == IF s.ID # <<>>
                        THEN urlString(urlResolveReference(base, urlParse(s.ID)))
                        ELSE urlString(base)
             pointerURI == IF s.ID # <<>> THEN baseURI \o <<Hash>>
                           ELSE baseURI \o <<Hash>> \o ptr
             plainURI == IF s.Anchor # <<>> THEN baseURI \o <<Hash>> \o s.Anchor ELSE <<>>
             own == [ ptr |-> ptr,
                      ids |-> Identifiers(baseURI, plainURI, pointerURI,
                                          IF encURI # pointerURI THEN <<encURI>> ELSE <<>>) ]
         IN  IF s.ID # <<>>
             THEN { [ ptr |-> ptr \o e.ptr,
                      ids |-> [e.ids EXCEPT !.EnclosingResourceURIs = Append(@, encURI \o e.ptr)] ]
                    : e \in ComputeIdentifiers([s EXCEPT !.ID = baseURI]) }
                  \cup {own}
             ELSE {own} \cup identifiersBelow(s, ptr, base)

\* Walk below s, as walkRec ranges over nodes(s)
identifiersBelow(s, ptr, base) ==
    LET ns == CHOOSE x \in nodes(s) : TRUE
    IN  UNION { identify(Child(s, ns[i].step), pathJoin(ptr, ns[i].keyword), base)
                : i \in 1..Len(ns) }

\* ComputeIdentifiers: the entries of the map it returns
ComputeIdentifiers(root) == identifiersBelow(root, rootPointer, urlParse(root.ID))

\* the visitor of ComputeIdentifiers writing the resolved $id through its
\* handle, not to a copy
identifyLeavesResolved(s, base) ==
    IF s.ID = <<>> THEN s
    ELSE [s EXCEPT !.ID = urlString(urlResolveReference(base, urlParse(s.ID)))]

\* what the visitor of ComputeIdentifiers leaves in the schema s its handle
\* points to: it works on the copy `schema := *s`
identifyLeaves(s, base) == s

RECURSIVE storesBelow(_, _, _, _)
\* the schema s once the walk of ComputeIdentifiers has gone through the nodes
\* ns of s: for each node the visitor runs, n.set stores what the handle holds
\* and, after nil, the walk goes below; after Skip the walk of the nested
\* ComputeIdentifiers goes below a copy of the node, whose children are shared
storesBelow(s, ns, ptr, base) ==
    IF ns = <<>> THEN s
    ELSE LET n == Head(ns)
             before == Child(s, n.step)
             cptr == pathJoin(ptr, n.keyword)
             quiet == cptr = rootPointer \/ (before.ID = <<>> /\ before.Anchor = <<>>)
             ret == IF ~quiet /\ before.ID # <<>> THEN "Skip" ELSE "nil"
             after == IF quiet THEN before ELSE identifyLeaves(before, base)
             stored == Store(s, <<n.step>>, n.step.kind, ret, after)
             node == Child(stored, n.step)
             inner == urlParse(urlString(urlResolveReference(base, urlParse(before.ID))))
             below == IF ret = "nil"
                      THEN storesBelow(node, CHOOSE x \in nodes(node) : TRUE, cptr, base)
                      ELSE [ storesBelow(node, CHOOSE x \in nodes(node) : TRUE, rootPointer, inner)
                               EXCEPT !.ID = node.ID ]
         IN  storesBelow(SetAt(stored, <<n.step>>, below), Tail(ns), ptr, base)

\* the document root as the walk of ComputeIdentifiers(root) leaves it; every
\* NewLocalLoader of a call of ResolveReference runs this walk, and nothing
\* else in the resolver stores into a schema
identifiersStores(root) ==
    storesBelow(root, CHOOSE x \in nodes(root) : TRUE, rootPointer, urlParse(root.ID))

\* the maps the entries can make: of the entries written under one key, the
\* map keeps one
identifierMaps(entries) ==
    { m \in SUBSET entries :
        /\ \A e \in entries : \E k \in m : k.ptr = e.ptr
        /\ \A k1, k2 \in m : k1.ptr = k2.ptr => k1 = k2 }

\* the schema resource roots among the identifiers
isResourceRoot(id) == id.BaseURI \o <<Hash>> = id.CanonResourcePointerURI

(***************************************************************************)
(* The loaders (loader.go).  A Loader is "nil" or the embedded loader over  *)
(* the files of EmbeddedFS.                                                 *)
(***************************************************************************)
FileScheme == <<"f", "i", "l", "e">>
ExternalFile == <<"e">>
ExternalDoc == [True EXCEPT !.Comment = <<"e">>, !.Defs = [ key \in {<<"a">>} |-> True ]]
EmbeddedFS == [ name \in {ExternalFile} |-> ExternalDoc ]

\* NewEmbeddedLoader(fs).Load
embeddedLoad(uri) ==
    LET name == TrimPrefix(uri.Path, <<Slash>>)
    IN  IF uri.Scheme # FileScheme THEN Err(<<"unsupported URI">>)
        ELSE IF name \notin DOMAIN EmbeddedFS THEN Err(<<"file does not exist">>)
        ELSE Ok(Handle(EmbeddedFS[name], <<>>))

(***************************************************************************)
(* ResolveReference, resolveRef and NewLocalLoader call one another.  Each  *)
(* takes the set `active` of the ResolveReference calls that have not yet   *)
(* returned: a call made again with the arguments of an active call makes   *)
(* the same calls again, and never returns.                                 *)
(***************************************************************************)
RECURSIVE ResolveReference(_, _, _, _)
RECURSIVE resolveRef(_, _, _, _, _)
RECURSIVE NewLocalLoader(_, _, _)

IsFatal(o) == o.kind \in {"panic", "overflow"}

\* NewLocalLoader: the loaders it can return (the identifiers, the prefetched
\* resource roots, the next loader), and the ways it can fail to return
NewLocalLoader(root, next, active) ==
    LET rootIds == [ ptr |-> rootPointer,
                     ids |-> Identifiers(Deref(root).ID, <<>>, Deref(root).ID \o <<Hash>>, <<>>) ]
        maps == identifierMaps(ComputeIdentifiers(Deref(root)) \cup {rootIds})
        prefetch(e) == resolveRef([ResolveConfig("nil") EXCEPT !.ignoreRefs = TRUE],
                                  root, getUnescapedPath(e.ptr), 0, active)
        roots(m) == { e \in m : isResourceRoot(e.ids) }
        bases(m) == { e.ids.BaseURI : e \in roots(m) }
        fetched(m, b) == { o.schema : o \in { x \in UNION { prefetch(e) : e \in { r \in roots(m) : r.ids.BaseURI = b } }
                                                  : ~IsFatal(x) } }
    IN  [ fatal |-> UNION { { o \in UNION { prefetch(e) : e \in roots(m) } : IsFatal(o) } : m \in maps },
          loaders |-> UNION { { [ids |-> m, prefetched |-> f, next |-> next]
                                : f \in { g \in [bases(m) -> UNION { fetched(m, b) : b \in bases(m) }] :
                                            \A b \in bases(m) : g[b] \in fetched(m, b) } }
                              : m \in { k \in maps : \A e \in roots(k) : \E o \in prefetch(e) : ~IsFatal(o) } } ]

\* the Load of the loader NewLocalLoader returns: the schema it returns, its
\* error dropped as ResolveReference drops it, and the uri as Load leaves it
localLoad(loader, uri) ==
    LET direct == { id \in { e.ids : e \in loader.ids } : id.CanonResourcePlainURI = urlString(uri) }
        first == IF direct = {} THEN { [b |-> <<>>, r |-> <<>>] }
                 ELSE { [b |-> id.BaseURI, r |-> urlParse(id.CanonResourcePointerURI).Fragment]
                        : id \in direct }
        u2 == urlString([uri EXCEPT !.Fragment = <<>>])
        byBase == { id \in { e.ids : e \in loader.ids } : isResourceRoot(id) /\ id.BaseURI = u2 }
        second(c) == IF c.b = <<>> /\ byBase # {}
                     THEN [b |-> u2, r |-> <<Hash>> \o uri.Fragment]
                     ELSE c
        load(c) == IF c.b \in DOMAIN loader.prefetched /\ c.r # <<>>
                   THEN [schema |-> loader.prefetched[c.b], uri |-> urlParse(c.r)]
                   ELSE IF loader.next # "nil"
                   THEN [schema |-> embeddedLoad(uri).schema, uri |-> uri]
                   ELSE [schema |-> NilSchema, uri |-> uri]
    IN  { load(second(c)) : c \in first }

\* ResolveReference
ResolveReference(config, ref, current, active) ==
    LET call == <<config, ref, current>>
        cfg == applyDefaults(config, current)
        docURI == urlParse(Deref(cfg.DocumentRoot).ID)
        rootURI == urlParse(Deref(cfg.Root).ID)
        u == urlResolveReference(urlResolveReference(docURI, rootURI), urlParse(ref))
        local == NewLocalLoader(cfg.DocumentRoot, cfg.Loader, active \cup {call})
        after(ls) ==
            LET cur1 == IF ls.schema # NilSchema THEN ls.schema ELSE current
                cfg1 == IF Deref(cur1).ID # <<>> THEN [cfg EXCEPT !.Root = cur1] ELSE cfg
                loaded == embeddedLoad(ls.uri)
                path == getUnescapedPath(ls.uri.Path)
            IN  IF IsAbs(ls.uri)
                THEN IF cfg.Loader = "nil" THEN {Panic}
                     ELSE IF loaded.kind = "err"
                     THEN {Err(<<"failed to load external schema">> \o loaded.msg)}
                     ELSE resolveRef([cfg1 EXCEPT !.Root = loaded.schema], loaded.schema,
                                     getUnescapedPath(ls.uri.Fragment), 0, active \cup {call})
                ELSE IF ls.uri.Path = <<>>
                THEN resolveRef(cfg1, cfg1.Root, getUnescapedPath(ls.uri.Fragment), 0,
                                active \cup {call})
                ELSE resolveRef([cfg1 EXCEPT !.ignoreRefs = (path = <<>> \/ isRelative(path))],
                                cur1, path, 0, active \cup {call})
    IN  IF call \in active THEN {Overflow}
        ELSE local.fatal
             \cup UNION { UNION { after(ls) : ls \in localLoad(l, u) } : l \in local.loaders }

\* resolveRef once the $ref of current has been followed: the segment at pos
resolveSegment(config, root, current, path, pos, active) ==
    LET segment == path[pos + 1]
        last == Len(path) - pos = 1
        arrays == { sliceKeywords[i].keyword : i \in 1..Len(sliceKeywords) }
        maps == { mapKeywords[i].keyword : i \in 1..Len(mapKeywords) }
        singles == { kwNot, kwIf, kwThen, kwElse, kwItems, kwContains,
                     kwAdditionalProperties, kwPropertyNames }
        field == FieldOf(segment)
        i == Atoi(path[pos + 2])
    IN  IF segment = <<Hash>> THEN resolveRef(config, root, path, pos + 1, active)
        ELSE IF segment \in arrays
        THEN IF last THEN {Err(<<"resolveRef: missing array index">>)}
             ELSE IF current = NilSchema THEN {Panic}
             ELSE IF ~i.ok THEN {Err(<<"resolveRef: invalid array index">>)}
             ELSE IF Len(Deref(current)[field]) <= i.val
             THEN {Err(<<"resolveRef: index out of bounds">>)}
             ELSE IF i.val < 0 THEN {Panic}
             ELSE resolveRef(config, ChildHandle(current, sliceStep(field, i.val + 1)),
                             path, pos + 2, active)
        ELSE IF segment \in maps
        THEN IF last THEN {Err(<<"resolveRef: missing object key">>)}
             ELSE IF current = NilSchema THEN {Panic}
             ELSE IF path[pos + 2] \notin DOMAIN Deref(current)[field]
             THEN {Err(<<"resolveRef: invalid path, no schema found">>)}
             ELSE resolveRef(config, ChildHandle(current, mapStep(field, path[pos + 2])),
                             path, pos + 2, active)
        ELSE IF segment \in singles
        THEN IF current = NilSchema THEN {Panic}
             ELSE IF Deref(current)[field] = <<>>
             THEN resolveRef(config, NilSchema, path, pos + 1, active)
             ELSE resolveRef(config, ChildHandle(current, ptrStep(field)), path, pos + 1, active)
        ELSE {Err(<<"invalid path: unknown segment">>)}

\* resolveRef
resolveRef(config, current, path, pos, active) ==
    IF current = NilSchema THEN {Ok(current)}
    ELSE IF Len(path) - pos = 0 /\ Deref(current).Ref = <<>> THEN {Ok(current)}
    ELSE LET cfg == IF Deref(current).ID # <<>> THEN [config EXCEPT !.Root = current]
                    ELSE config
             loaded == IF Deref(current).Ref # <<>> /\ ~cfg.ignoreRefs
                       THEN ResolveReference(cfg, Deref(current).Ref, current, active)
                       ELSE {Ok(current)}
             next(o) == IF o.kind = "err"
                        THEN {Err(<<"failed to side-load referenced schema">> \o o.msg)}
                        ELSE IF IsFatal(o) \/ Len(path) - pos = 0 THEN {o}
                        ELSE resolveSegment([cfg EXCEPT !.ignoreRefs = FALSE], cfg.Root,
                                            o.schema, path, pos, active)
         IN  UNION { next(o) : o \in loaded }

(***************************************************************************)
(* The calls of ResolveReference the model makes: a document with $defs a  *)
(* and b, with or without an $id and a $ref on the root, on a and on b,    *)
(* resolved from its root with the zero configuration or with the embedded *)
(* loader.                                                                 *)
(***************************************************************************)
RefRoot == <<"#">>
RefDefsA == <<"#", "/", "$", "d", "e", "f", "s", "/", "a">>
RefDefsB == <<"#", "/", "$", "d", "e", "f", "s", "/", "b">>
RefDefsMissing == <<"#", "/", "$", "d", "e", "f", "s", "/", "c">>
RefPathA == <<"/", "$", "d", "e", "f", "s", "/", "a">>
RefExternal == <<"f", "i", "l", "e", ":", "/", "/", "/", "e", "#", "/", "$", "d", "e", "f", "s", "/", "a">>
RefExternalMissing == <<"f", "i", "l", "e", ":", "/", "/", "/", "m">>
AbsoluteID == <<"s", ":", "/", "/", "h", "/", "r">>
RelativeID == <<"r">>
EmbeddedID == <<"o">>

Document(id, ref, refA, refB, idB) ==
    [True EXCEPT
        !.ID = id, !.Ref = ref,
        !.Defs = Map2(<<"a">>, [True EXCEPT !.Comment = <<"a">>, !.Ref = refA],
                      <<"b">>, [True EXCEPT !.Comment = <<"b">>, !.Ref = refB, !.ID = idB])]

Documents ==
    { Document(id, ref, refA, refB, idB) :
        id \in {<<>>, AbsoluteID, RelativeID},
        ref \in {<<>>, RefRoot, RefDefsA},
        refA \in {<<>>, RefDefsA, RefDefsB},
        refB \in {<<>>, RefDefsA},
        idB \in {<<>>, EmbeddedID} }

Refs ==
    { <<>>, RefRoot, RefDefsA, RefDefsB, RefDefsMissing, RefPathA, RefExternal,
      RefExternalMissing }

\* documents with two schemas under one of the []Schema keywords, the first
\* of the two with or without an $id
ArrayDocuments ==
    { [ [True EXCEPT !.ID = id]
          EXCEPT ![f] = << [True EXCEPT !.Comment = <<"x">>, !.ID = idX],
                           [True EXCEPT !.Comment = <<"y">>] >> ] :
        f \in { sliceKeywords[i].field : i \in 1..Len(sliceKeywords) },
        id \in {<<>>, AbsoluteID}, idX \in {<<>>, EmbeddedID} }

\* "#/" keyword and "#/" keyword "/" segment
RefTo(keyword) == <<Hash, Slash>> \o keyword
RefInto(keyword, segment) == <<Hash, Slash>> \o keyword \o <<Slash>> \o segment

IndexSegments == { <<"0">>, <<"1">>, <<"2">>, <<"x">> }
ArrayRefs ==
    UNION { { RefTo(sliceKeywords[i].keyword) }
            \cup { RefInto(sliceKeywords[i].keyword, seg) : seg \in IndexSegments }
            : i \in 1..Len(sliceKeywords) }

\* index segments with a sign or a leading zero
SignedSegments == { <<"+", "1">>, <<"0", "1">>, <<"-", "1">>, <<"+", "0">> }
SignedRefs ==
    { RefInto(sliceKeywords[i].keyword, seg) :
        i \in 1..Len(sliceKeywords), seg \in SignedSegments }

\* a document whose $defs has keys that need escaping in a pointer
KeyTildeO == <<"f", "o", "~", "o">>
KeySlashR == <<"b", "a", "/", "r">>
EscapedKeys == { KeyTildeO, KeySlashR, KeyTilde, <<Slash>> }
KeyDocuments ==
    { [True EXCEPT !.Defs = [ key \in EscapedKeys |-> [True EXCEPT !.Comment = key] ]] }

EscapedSegments == { <<"f", "o", "~", "0", "o">>, <<"b", "a", "~", "1", "r">>, <<"~", "0", "1">> }
KeyRefs == { RefInto(kwDefs, seg) : seg \in EscapedSegments }

\* documents whose $defs a and b declare the same $anchor or the same $id
DuplicateDocuments ==
    { [ True EXCEPT !.ID = AbsoluteID,
                    !.Defs = [ key \in {<<"a">>, <<"b">>} |->
                                 [ True EXCEPT !.Comment = key, !.ID = id, !.Anchor = anchor ] ] ] :
        id \in {<<>>, EmbeddedID}, anchor \in {<<>>, <<"n">>} }
RefAnchor == <<Hash, "n">>
RefEmbedded == EmbeddedID
DuplicateRefs == { RefAnchor, RefEmbedded, EmbeddedID \o RefAnchor }

\* documents with an embedded resource at $defs/b, which has a $defs/a of its
\* own and an items, and with two more embedded resources for a relative
\* $ref to tell the base URI by
NestedID == <<"d", "/", "o">>
SiblingID == <<"d", "/", "q">>
OuterID == <<"q">>
RefSibling == <<"q">>
EmbeddedDocument(id, refB, refItems) ==
    LET b == [ True EXCEPT !.ID = NestedID, !.Ref = refB,
                           !.Defs = [ key \in {<<"a">>} |-> [True EXCEPT !.Comment = <<"b", "a">>] ],
                           !.Items = << [True EXCEPT !.Ref = refItems] >> ]
    IN  [ True EXCEPT
            !.ID = id,
            !.Defs = [ key \in {<<"a">>, <<"b">>, <<"c">>, <<"e">>} |->
                         IF key = <<"a">> THEN [True EXCEPT !.Comment = <<"a">>]
                         ELSE IF key = <<"b">> THEN b
                         ELSE IF key = <<"c">> THEN [True EXCEPT !.ID = SiblingID]
                         ELSE [True EXCEPT !.ID = OuterID] ] ]
EmbeddedDocuments ==
    { EmbeddedDocument(id, refB, refItems) :
        id \in {<<>>, AbsoluteID},
        refB \in {<<>>, RefDefsA, RefSibling},
        refItems \in {RefDefsA, RefSibling} }
RefItemsOfB == RefDefsB \o <<Slash>> \o kwItems
EmbeddedRefs == { RefDefsB, RefItemsOfB }

\* documents whose $defs/a has a $ref to $defs/b and an items of its own
PassingDocuments ==
    { [ True EXCEPT
          !.ID = id,
          !.Defs = Map2(<<"a">>, [ True EXCEPT !.Ref = RefDefsB,
                                               !.Items = << [True EXCEPT !.Comment = <<"a">>] >> ],
                        <<"b">>, [ True EXCEPT !.Items = items ]) ] :
        id \in {<<>>, AbsoluteID},
        items \in { <<>>, << [True EXCEPT !.Comment = <<"b">>] >> } }
RefItemsOfA == RefDefsA \o <<Slash>> \o kwItems

\* documents with an items, and pointers to it with and without a "/" at the
\* end
ItemsDocuments ==
    { [ True EXCEPT !.ID = id, !.Items = << [True EXCEPT !.Comment = <<"i">>] >> ] :
        id \in {<<>>, AbsoluteID} }
RefItems == RefTo(kwItems)
RefItemsSlash == RefTo(kwItems) \o <<Slash>>
RefMissing == RefTo(kwNot)
RefMissingBelow == RefTo(kwItems) \o <<Slash>> \o kwNot
ItemsRefs == { RefItems, RefItemsSlash, RefMissing, RefMissingBelow }

Request(loader, ref, doc) ==
    [config |-> ResolveConfig(loader), ref |-> ref, current |-> Handle(doc, <<>>)]

Requests ==
    { Request(loader, ref, doc) :
        loader \in {"nil", "embedded"}, ref \in Refs, doc \in Documents }
    \cup { Request("nil", ref, doc) : ref \in ArrayRefs, doc \in ArrayDocuments }
    \cup { Request("nil", ref, doc) : ref \in KeyRefs, doc \in KeyDocuments }
    \cup { Request(loader, ref, doc) :
             loader \in {"nil", "embedded"}, ref \in DuplicateRefs, doc \in DuplicateDocuments }
    \cup { Request("nil", ref, doc) : ref \in EmbeddedRefs, doc \in EmbeddedDocuments }
    \cup { Request("nil", RefItemsOfA, doc) : doc \in PassingDocuments }
    \cup { Request("nil", ref, doc) : ref \in ItemsRefs, doc \in ItemsDocuments }
    \cup { Request("nil", ref, doc) : ref \in SignedRefs, doc \in ArrayDocuments }

\* Walk is not called
WalkerIdle ==
    /\ tree = True
    /\ pc = "done"
    /\ cur = [Pointer |-> rootPointer, path |-> <<>>]
    /\ stack = <<>>
    /\ cancelled = FALSE
    /\ calls = <<>>
    /\ result = "none"
    /\ writes = 0

InitResolve ==
    /\ WalkerIdle
    /\ resolving \in Requests
    /\ resolved = <<>>
    /\ document = resolving.current[1].root
    /\ identifiers = <<>>
    /\ CopyIdle

\* one call of ResolveReference, from its entry to its end
Resolve ==
    /\ resolved = <<>>
    /\ resolving.current # NilSchema
    /\ \E o \in ResolveReference(resolving.config, resolving.ref, resolving.current, {}) :
         resolved' = <<o>>
    /\ document' = identifiersStores(document)
    /\ UNCHANGED <<tree, pc, cur, stack, cancelled, calls, result, writes, resolving,
                   identifiers, copyVars, ptrVars>>

NextResolve == Resolve

SpecResolve == InitResolve /\ [][NextResolve]_vars

(***************************************************************************)
(* The calls of ComputeIdentifiers the model makes: a root with one schema *)
(* under $defs, one under its items and one under that one's prefixItems,  *)
(* each with or without $id and $anchor, and a root whose $defs has the    *)
(* key "..".                                                                *)
(***************************************************************************)
NestedAnchors == << <<"l">>, <<"m">>, <<"n">> >>
NestedIDs == << <<"o">>, <<"p">>, <<"q">> >>

Nested(level, ids, anchors) ==
    [ True EXCEPT !.ID = ids[level], !.Anchor = anchors[level] ]

NestedDocument(id, ids, anchors) ==
    LET third == Nested(3, ids, anchors)
        second == [ Nested(2, ids, anchors) EXCEPT !.PrefixItems = <<third>> ]
        first == [ Nested(1, ids, anchors) EXCEPT !.Items = <<second>> ]
    IN  [ True EXCEPT !.ID = id, !.Defs = [ key \in {KeyA} |-> first ] ]

NestedDocuments ==
    { NestedDocument(id, ids, anchors) :
        id \in {<<>>, AbsoluteID},
        ids \in { [ i \in 1..3 |-> IF i \in on THEN NestedIDs[i] ELSE <<>> ] : on \in SUBSET (1..3) },
        anchors \in { [ i \in 1..3 |-> IF i \in on THEN NestedAnchors[i] ELSE <<>> ] : on \in SUBSET (1..3) } }

DotDotDocuments ==
    { [ True EXCEPT !.ID = id,
                    !.Defs = [ key \in {KeyDotDot} |-> [True EXCEPT !.ID = EmbeddedID] ] ] :
        id \in {<<>>, AbsoluteID} }

Roots == NestedDocuments \cup DotDotDocuments

InitIdentifiers ==
    /\ WalkerIdle
    /\ resolving = [config |-> <<>>, ref |-> <<>>, current |-> <<>>]
    /\ resolved = <<>>
    /\ document \in Roots
    /\ identifiers = <<>>
    /\ CopyIdle

\* one call of ComputeIdentifiers(document), from its entry to its return
Identify ==
    /\ identifiers = <<>>
    /\ \E m \in identifierMaps(ComputeIdentifiers(document)) : identifiers' = <<m>>
    /\ UNCHANGED <<tree, pc, cur, stack, cancelled, calls, result, writes, resolving,
                   resolved, document, copyVars, ptrVars>>

\* the URIs of a record: the canonical pointer URI, the canonical plain URI
\* if there is one, and the enclosing resource URIs
RecordURIs(ids) ==
    {ids.CanonResourcePointerURI}
    \cup (IF ids.CanonResourcePlainURI = <<>> THEN {} ELSE {ids.CanonResourcePlainURI})
    \cup { ids.EnclosingResourceURIs[i] : i \in 1..Len(ids.EnclosingResourceURIs) }

\* one of the URIs ComputeIdentifiers returned is looked up from the document
\* root: the local loader built from the document loads it, and the resolver
\* goes down the pointer the loader leaves in the URI
Lookup ==
    /\ identifiers # <<>>
    /\ resolved = <<>>
    /\ \E e \in identifiers[1] : \E uri \in RecordURIs(e.ids) :
         /\ resolving' = Request("nil", uri, document)
         /\ \E o \in ResolveReference(ResolveConfig("nil"), uri, Handle(document, <<>>), {}) :
              resolved' = <<o>>
    /\ UNCHANGED <<tree, pc, cur, stack, cancelled, calls, result, writes, document,
                   identifiers, copyVars, ptrVars>>

NextIdentifiers == Identify \/ Lookup

SpecIdentifiers == InitIdentifiers /\ [][NextIdentifiers]_vars

(***************************************************************************)
(* Copy (copy.go).  A Schema is a struct held by value; its maps, slices   *)
(* and pointers refer to cells of the heap.  A cell is named by its index  *)
(* in heap, Nil is the nil map, slice or pointer.  Of the fields of one    *)
(* Go type that Copy treats alike, the model keeps one or two.  A value of *)
(* type any is nil, a scalar (given by its JSON text) or a []any.          *)
(***************************************************************************)
Nil == 0

AnyNil == [t |-> "nil", s |-> "", a |-> Nil]
AnyScalar(s) == [t |-> "scalar", s |-> s, a |-> Nil]
AnySlice(a) == [t |-> "slice", s |-> "", a |-> a]

\* Schema{}
SchemaZero ==
    [ ID |-> "", Anchor |-> "", Vocabulary |-> Nil, Defs |-> Nil, AllOf |-> Nil, Not |-> Nil,
      UnevaluatedItems |-> Nil, Enum |-> Nil, Const |-> AnyNil, MaxLength |-> Nil,
      Required |-> Nil, DependentRequired |-> Nil ]

Cell(kind, v) == [kind |-> kind, v |-> v]

\* make, new, &c: a fresh cell
new(h, kind, v) == [heap |-> Append(h, Cell(kind, v)), v |-> Len(h) + 1]

\* the scalars reflect.Value.IsZero reports as zero: 0, false and ""
ZeroScalars == {"0", "false", "\"\""}

\* copyAny: the zero value of T for an invalid or zero v, else what
\* json.Unmarshal makes of json.Marshal(v)
copyAny(h, v) ==
    IF v.t = "nil" \/ (v.t = "scalar" /\ v.s \in ZeroScalars) \/ (v.t = "slice" /\ v.a = Nil)
    THEN [heap |-> h, v |-> AnyNil]
    ELSE IF v.t = "scalar" THEN [heap |-> h, v |-> v]
    ELSE LET c == new(h, "anys", h[v.a].v) IN [heap |-> c.heap, v |-> AnySlice(c.v)]

RECURSIVE Copy(_, _)
RECURSIVE copyEach(_, _, _, _)
RECURSIVE copyKeys(_, _, _, _, _)

\* copyPtr returning its argument
copyPtrShared(h, a, fn) == [heap |-> h, v |-> a]

\* copyPtr; fn is "Copy" or "none" (no fn given)
copyPtr(h, a, fn) ==
    IF a = Nil THEN [heap |-> h, v |-> Nil]
    ELSE IF fn = "Copy"
    THEN LET r == Copy(h, h[a].v) IN new(r.heap, h[a].kind, r.v)
    ELSE new(h, h[a].kind, h[a].v)

\* the loop of copySlice over the elements
copyEach(h, elems, fn, acc) ==
    IF elems = <<>> THEN [heap |-> h, v |-> acc]
    ELSE LET r == IF fn = "Copy" THEN Copy(h, Head(elems)) ELSE [heap |-> h, v |-> Head(elems)]
         IN  copyEach(r.heap, Tail(elems), fn, Append(acc, r.v))

copySlice(h, a, fn) ==
    IF a = Nil THEN [heap |-> h, v |-> Nil]
    ELSE LET r == copyEach(h, h[a].v, fn, <<>>) IN new(r.heap, h[a].kind, r.v)

\* the loop of copyMap over the keys; fn is "Copy", "copySlice" or "none"
copyKeys(h, m, keys, fn, acc) ==
    IF keys = {} THEN [heap |-> h, v |-> acc]
    ELSE LET k == CHOOSE x \in keys : TRUE
             r == IF fn = "Copy" THEN Copy(h, m[k])
                  ELSE IF fn = "copySlice" THEN copySlice(h, m[k], "none")
                  ELSE [heap |-> h, v |-> m[k]]
         IN  copyKeys(r.heap, m, keys \ {k}, fn, acc @@ (k :> r.v))

copyMap(h, a, fn) ==
    IF a = Nil THEN [heap |-> h, v |-> Nil]
    ELSE LET r == copyKeys(h, h[a].v, DOMAIN h[a].v, fn, <<>>) IN new(r.heap, h[a].kind, r.v)

\* Copy: the heap after the call and the Schema it returns; the fields it
\* does not name are left zero
Copy(h, s) ==
    LET vocabulary == copyMap(h, s.Vocabulary, "none")
        defs == copyMap(vocabulary.heap, s.Defs, "Copy")
        allOf == copySlice(defs.heap, s.AllOf, "Copy")
        not == copyPtr(allOf.heap, s.Not, "Copy")
        enum == copyAny(not.heap, AnySlice(s.Enum))
        const == copyAny(enum.heap, s.Const)
        maxLength == copyPtr(const.heap, s.MaxLength, "none")
        required == copySlice(maxLength.heap, s.Required, "none")
        dependentRequired == copyMap(required.heap, s.DependentRequired, "copySlice")
    IN  [ heap |-> dependentRequired.heap,
          v |-> [ SchemaZero EXCEPT
                    !.Vocabulary = vocabulary.v,
                    !.ID = s.ID,
                    !.Defs = defs.v,
                    !.AllOf = allOf.v,
                    !.Not = not.v,
                    !.Enum = enum.v.a,
                    !.Const = const.v,
                    !.MaxLength = maxLength.v,
                    !.Required = required.v,
                    !.DependentRequired = dependentRequired.v ] ]

\* the fields of Schema that refer to cells
CellFields ==
    {"Vocabulary", "Defs", "AllOf", "Not", "UnevaluatedItems", "Enum", "MaxLength", "Required",
     "DependentRequired"}

RECURSIVE Reachable(_, _)
\* the cells reachable from the Schema s
Reachable(h, s) ==
    LET direct == ({ s[f] : f \in CellFields } \cup {s.Const.a}) \ {Nil}
        below(a) ==
            IF h[a].kind = "schema" THEN Reachable(h, h[a].v)
            ELSE IF h[a].kind = "schemas"
            THEN UNION { Reachable(h, h[a].v[i]) : i \in 1..Len(h[a].v) }
            ELSE IF h[a].kind = "defs"
            THEN UNION { Reachable(h, h[a].v[k]) : k \in DOMAIN h[a].v }
            ELSE IF h[a].kind = "lists"
            THEN { h[a].v[k] : k \in DOMAIN h[a].v } \ {Nil}
            ELSE {}
    IN  direct \cup UNION { below(a) : a \in direct }

RECURSIVE Value(_, _)
\* the Schema s by value: every reference replaced by what it refers to
Value(h, s) ==
    LET anyValue(x) ==
            [ t |-> x.t, s |-> x.s, items |-> IF x.a = Nil THEN <<>> ELSE h[x.a].v ]
    IN  [ ID |-> s.ID,
          Anchor |-> s.Anchor,
          Vocabulary |-> IF s.Vocabulary = Nil THEN <<>> ELSE <<h[s.Vocabulary].v>>,
          Defs |-> IF s.Defs = Nil THEN <<>>
                   ELSE << [ k \in DOMAIN h[s.Defs].v |-> Value(h, h[s.Defs].v[k]) ] >>,
          AllOf |-> IF s.AllOf = Nil THEN <<>>
                    ELSE << [ i \in 1..Len(h[s.AllOf].v) |-> Value(h, h[s.AllOf].v[i]) ] >>,
          Not |-> IF s.Not = Nil THEN <<>> ELSE << Value(h, h[s.Not].v) >>,
          UnevaluatedItems |-> IF s.UnevaluatedItems = Nil THEN <<>>
                               ELSE << Value(h, h[s.UnevaluatedItems].v) >>,
          Enum |-> IF s.Enum = Nil THEN <<>> ELSE <<h[s.Enum].v>>,
          Const |-> anyValue(s.Const),
          MaxLength |-> IF s.MaxLength = Nil THEN <<>> ELSE <<h[s.MaxLength].v>>,
          Required |-> IF s.Required = Nil THEN <<>> ELSE <<h[s.Required].v>>,
          DependentRequired |->
              IF s.DependentRequired = Nil THEN <<>>
              ELSE << [ k \in DOMAIN h[s.DependentRequired].v |->
                          LET a == h[s.DependentRequired].v[k]
                          IN  IF a = Nil THEN <<>> ELSE <<h[a].v>> ] >> ]

(***************************************************************************)
(* The calls of Copy the model makes: a Schema with up to two of its       *)
(* fields set, the subschemas it holds being Schema{}, a Schema with a not *)
(* or a Schema with an $id; then one write through a reference reachable   *)
(* from the argument or from the result.                                   *)
(***************************************************************************)
SchemaFields ==
    {"ID", "Anchor", "Const"} \cup CellFields

Variants == 1..3

\* a subschema to put under a keyword
leaf(h, variant) ==
    IF variant = 1 THEN [heap |-> h, v |-> SchemaZero]
    ELSE IF variant = 2
    THEN LET c == new(h, "schema", SchemaZero)
         IN  [heap |-> c.heap, v |-> [SchemaZero EXCEPT !.Not = c.v]]
    ELSE [heap |-> h, v |-> [SchemaZero EXCEPT !.ID = "i"]]

\* the Schema hs.v with the field f set
withField(hs, f, variant) ==
    LET h == hs.heap
        sub == leaf(h, variant)
        put(c) == [heap |-> c.heap, v |-> [hs.v EXCEPT ![f] = c.v]]
    IN  IF f = "ID" THEN [hs EXCEPT !.v.ID = "i"]
        ELSE IF f = "Anchor" THEN [hs EXCEPT !.v.Anchor = "n"]
        ELSE IF f = "Vocabulary" THEN put(new(h, "bools", "v" :> TRUE))
        ELSE IF f = "Defs" THEN put(new(sub.heap, "defs", "a" :> sub.v))
        ELSE IF f = "AllOf" THEN put(new(sub.heap, "schemas", <<sub.v>>))
        ELSE IF f \in {"Not", "UnevaluatedItems"} THEN put(new(sub.heap, "schema", sub.v))
        ELSE IF f = "Enum"
        THEN put(new(h, "anys", IF variant = 1 THEN <<>> ELSE <<AnyScalar("0")>>))
        ELSE IF f = "Const"
        THEN IF variant = 1 THEN [hs EXCEPT !.v.Const = AnyScalar("1")]
             ELSE IF variant = 2 THEN [hs EXCEPT !.v.Const = AnyScalar("0")]
             ELSE LET c == new(h, "anys", <<AnyScalar("\"x\"")>>)
                  IN  [heap |-> c.heap, v |-> [hs.v EXCEPT !.Const = AnySlice(c.v)]]
        ELSE IF f = "MaxLength" THEN put(new(h, "int", 0))
        ELSE IF f = "Required" THEN put(new(h, "strings", <<"r">>))
        ELSE LET r == new(h, "strings", <<"r">>)
             IN  put(new(r.heap, "lists", "k" :> r.v))

RECURSIVE withFields(_, _, _)
withFields(hs, fields, variant) ==
    IF fields = {} THEN hs
    ELSE LET f == CHOOSE x \in fields : TRUE
         IN  withFields(withField(hs, f, variant), fields \ {f}, variant)

MaxFields == 2

Arguments ==
    { withFields([heap |-> <<>>, v |-> SchemaZero], fields, variant) :
        fields \in { fs \in SUBSET SchemaFields : Cardinality(fs) <= MaxFields },
        variant \in Variants }

InitCopy ==
    /\ WalkerIdle
    /\ resolving = [config |-> <<>>, ref |-> <<>>, current |-> <<>>]
    /\ resolved = <<>>
    /\ document = True
    /\ identifiers = <<>>
    /\ \E hs \in Arguments : heap = hs.heap /\ srcSchema = <<hs.v>>
    /\ dstSchema = <<>>
    /\ snapshot = <<>>
    /\ validating = [fn |-> "", arg |-> <<>>]
    /\ validated = <<>>

\* one call of Copy(src), from its entry to its return
CallCopy ==
    /\ srcSchema # <<>>
    /\ dstSchema = <<>>
    /\ LET r == Copy(heap, srcSchema[1])
       IN  /\ heap' = r.heap
           /\ dstSchema' = <<r.v>>
           /\ snapshot' = << [ src |-> Value(r.heap, srcSchema[1]),
                               dst |-> Value(r.heap, r.v),
                               touched |-> "none" ] >>
    /\ UNCHANGED <<tree, pc, cur, stack, cancelled, calls, result, writes, resolving,
                   resolved, document, identifiers, srcSchema, ptrVars>>

\* a cell with something in it to overwrite or a map to add a key to
Writable(c) == c.kind \in {"schemas", "anys", "strings"} => c.v # <<>>

\* the cell c after one write to what it holds
Written(c) ==
    IF c.kind = "schema" THEN [c.v EXCEPT !.ID = "z"]
    ELSE IF c.kind = "schemas" THEN [c.v EXCEPT ![1].ID = "z"]
    ELSE IF c.kind = "defs" THEN c.v @@ ("z" :> SchemaZero)
    ELSE IF c.kind = "bools" THEN c.v @@ ("z" :> TRUE)
    ELSE IF c.kind = "lists" THEN c.v @@ ("z" :> Nil)
    ELSE IF c.kind = "anys" THEN [c.v EXCEPT ![1] = AnyScalar("9")]
    ELSE IF c.kind = "strings" THEN [c.v EXCEPT ![1] = "z"]
    ELSE c.v + 1

\* the caller writes through a map, slice or pointer of src or of the copy
Modify ==
    /\ snapshot # <<>>
    /\ snapshot[1].touched = "none"
    /\ \E side \in {"src", "dst"} :
         \E a \in Reachable(heap, IF side = "src" THEN srcSchema[1] ELSE dstSchema[1]) :
            /\ Writable(heap[a])
            /\ heap' = [heap EXCEPT ![a].v = Written(heap[a])]
            /\ snapshot' = <<[snapshot[1] EXCEPT !.touched = side]>>
    /\ UNCHANGED <<tree, pc, cur, stack, cancelled, calls, result, writes, resolving,
                   resolved, document, identifiers, srcSchema, dstSchema, ptrVars>>

NextCopy == CallCopy \/ Modify

SpecCopy == InitCopy /\ [][NextCopy]_vars

(***************************************************************************)
(* ValidateReferencePointer (ptr.go) and ValidateJSONPointerFunc,          *)
(* IsArrayIndex (jsonptr/ptr.go).  An error is given by its kind, the      *)
(* segment and the position; positions count from 1.                       *)
(***************************************************************************)
NoError == [err |-> "nil", seg |-> <<>>, pos |-> 0]
SegmentError(seg, pos, err) == [err |-> err, seg |-> seg, pos |-> pos]
InvalidJSONPointerError(pointer) == [err |-> "invalid JSON pointer", seg |-> pointer, pos |-> 0]

ErrPtrUnknownKeyword == "unknown keyword"
ErrPtrNoSchema == "does not point to schema"
InvalidIndexError == "invalid array index"
EscapeSequenceError == "invalid escape sequence"

isDigit(c) == \E d \in 1..Len(Digits) : Digits[d] = c

IsArrayIndex(segment) ==
    \/ Len(segment) = 1 /\ segment[1] = "0"
    \/ \A j \in 1..Len(segment) : ~((j = 1 /\ segment[j] = "0") \/ ~isDigit(segment[j]))

UpperLetters ==
    { "A", "B", "C", "D", "E", "F", "G", "H", "I", "J", "K", "L", "M",
      "N", "O", "P", "Q", "R", "S", "T", "U", "V", "W", "X", "Y", "Z" }

isNCName(str) ==
    \A i \in 1..Len(str) :
        \/ isDigit(str[i]) \/ str[i] \in Letters \cup UpperLetters \/ str[i] = "_"
        \/ i > 1 /\ str[i] \in {"-", "."}

keywordsOf(table) == { table[i].keyword : i \in 1..Len(table) }

schemaSegmentValidator(i, segments) ==
    LET segment == segments[i]
    IN  IF segment \in keywordsOf(sliceKeywords) \cup keywordsOf(mapKeywords)
        THEN IF i >= Len(segments) THEN SegmentError(segment, i, ErrPtrNoSchema) ELSE NoError
        ELSE IF segment \in keywordsOf(children) THEN NoError
        ELSE IF i > 1 /\ segments[i - 1] \in keywordsOf(mapKeywords) THEN NoError
        ELSE IF i > 1 /\ segments[i - 1] \in keywordsOf(sliceKeywords)
        THEN IF ~IsArrayIndex(segment) THEN SegmentError(segment, i, InvalidIndexError)
             ELSE NoError
        ELSE SegmentError(segment, i, ErrPtrUnknownKeyword)

\* a tilde of the token that is not followed by 0 or 1
badTilde(token) ==
    \E j \in 1..Len(token) :
        token[j] = "~" /\ ~(j < Len(token) /\ token[j + 1] \in {"0", "1"})

RECURSIVE validateSegments(_, _)
\* the loop of ValidateJSONPointerFunc from segment i on, fn being
\* schemaSegmentValidator
validateSegments(path, i) ==
    IF i > Len(path) THEN NoError
    ELSE IF badTilde(path[i]) THEN SegmentError(path[i], i, EscapeSequenceError)
    ELSE LET err == schemaSegmentValidator(i, path)
         IN  IF err # NoError THEN err ELSE validateSegments(path, i + 1)

ValidateJSONPointerFunc(pointer) ==
    IF Len(pointer) = 0 \/ pointer = <<Slash>> THEN NoError
    ELSE IF pointer[1] # Slash THEN InvalidJSONPointerError(pointer)
    ELSE validateSegments(Split(Tail(pointer), Slash), 1)

ValidateReferencePointer(ref) ==
    IF Len(ref) > 1 /\ ref[1] = Hash
    THEN IF isNCName(Tail(ref)) THEN NoError ELSE ValidateJSONPointerFunc(Tail(ref))
    ELSE ValidateJSONPointerFunc(ref)

(***************************************************************************)
(* The calls of ValidateReferencePointer and IsArrayIndex the model makes: *)
(* pointers of up to MaxSegments segments, with and without "#" in front,  *)
(* a pointer without its first "/", a plain name, and the segments alone.  *)
(***************************************************************************)
MaxSegments == 3

ReferenceSegments ==
    { kwNot, kwAllOf, kwDefs, <<"0">>, <<"0", "1">>, <<"1", "0">>, <<"-", "1">>, <<"+", "1">>,
      <<"a">>, <<>>, <<"~">>, <<"~", "1">> }

RECURSIVE PointersOf(_)
\* the pointers of n segments
PointersOf(n) ==
    IF n = 0 THEN {<<>>}
    ELSE { p \o <<Slash>> \o seg : p \in PointersOf(n - 1), seg \in ReferenceSegments }

ReferencePointers == UNION { PointersOf(n) : n \in 0..MaxSegments }

References ==
    ReferencePointers \cup { <<Hash>> \o p : p \in ReferencePointers }
    \cup { kwNot \o <<Slash>> \o <<"a">>, <<Hash, "a">> }

InitPointer ==
    /\ WalkerIdle
    /\ resolving = [config |-> <<>>, ref |-> <<>>, current |-> <<>>]
    /\ resolved = <<>>
    /\ document = True
    /\ identifiers = <<>>
    /\ heap = <<>>
    /\ srcSchema = <<>>
    /\ dstSchema = <<>>
    /\ snapshot = <<>>
    /\ \/ validating \in { [fn |-> "ValidateReferencePointer", arg |-> r] : r \in References }
       \/ validating \in { [fn |-> "IsArrayIndex", arg |-> seg] : seg \in ReferenceSegments }
    /\ validated = <<>>

\* one call of ValidateReferencePointer(ref)
Validate ==
    /\ validating.fn = "ValidateReferencePointer"
    /\ validated = <<>>
    /\ validated' = <<ValidateReferencePointer(validating.arg)>>
    /\ UNCHANGED <<tree, pc, cur, stack, cancelled, calls, result, writes, resolving,
                   resolved, document, identifiers, copyVars, validating>>

\* one call of IsArrayIndex(segment)
CheckIndex ==
    /\ validating.fn = "IsArrayIndex"
    /\ validated = <<>>
    /\ validated' = <<IsArrayIndex(validating.arg)>>
    /\ UNCHANGED <<tree, pc, cur, stack, cancelled, calls, result, writes, resolving,
                   resolved, document, identifiers, copyVars, validating>>

NextPointer == Validate \/ CheckIndex

SpecPointer == InitPointer /\ [][NextPointer]_vars

(***************************************************************************)
(* Properties of Walk and of ResolveReference.                             *)
(***************************************************************************)
SingleFields == { children[i].field : i \in 1..Len(children) }
SliceFields == { sliceKeywords[i].field : i \in 1..Len(sliceKeywords) }
MapFields == { mapKeywords[i].field : i \in 1..Len(mapKeywords) }

\* the steps to the subschemas directly below s, read off its fields
ChildSteps(s) ==
    { ptrStep(f) : f \in { g \in SingleFields : s[g] # <<>> } }
    \cup UNION { { sliceStep(f, i) : i \in 1..Len(s[f]) } : f \in SliceFields }
    \cup UNION { { mapStep(f, k) : k \in DOMAIN s[f] } : f \in MapFields }

RECURSIVE Slots(_)
\* every slot of the tree s
Slots(s) ==
    {<<>>} \cup UNION { { <<st>> \o q : q \in Slots(Child(s, st)) } : st \in ChildSteps(s) }

IsPrefix(q, p) == Len(q) <= Len(p) /\ SubSeq(p, 1, Len(q)) = q
IsProperPrefix(q, p) == Len(q) < Len(p) /\ IsPrefix(q, p)

CallsFor(p) == { i \in 1..Len(calls) : calls[i].path = p }
AllReturned(S) == \A i \in 1..Len(calls) : calls[i].ret \in S

KeywordOf(field) ==
    LET all == children \o sliceKeywords \o mapKeywords
    IN  all[CHOOSE i \in 1..Len(all) : all[i].field = field].keyword

RECURSIVE PathSegments(_)
\* the reference tokens that lead to a slot: the keyword, then the index or key
PathSegments(path) ==
    IF path = <<>> THEN <<>>
    ELSE LET st == Head(path)
         IN  (IF st.kind = "ptr" THEN <<KeywordOf(st.field)>>
              ELSE IF st.kind = "slice" THEN <<KeywordOf(st.field), Itoa(st.idx - 1)>>
              ELSE <<KeywordOf(st.field), st.key>>)
             \o PathSegments(Tail(path))

\* RFC 6901: the reference tokens of a pointer, "~1" decoded before "~0"
Rfc6901Tokens(ptr) ==
    LET body == IF Len(ptr) > 0 /\ ptr[1] = Slash THEN Tail(ptr) ELSE ptr
        raw == IF body = <<>> THEN <<>> ELSE Split(body, Slash)
    IN  [ i \in 1..Len(raw) |->
            ReplaceAll(ReplaceAll(raw[i], <<"~", "1">>, <<Slash>>), <<"~", "0">>, <<"~">>) ]

\* C1: with a visitor that always returns nil, Walk calls the visitor exactly
\* once for the root, with pointer "/", exactly once for every subschema
\* reachable through the single-schema keywords, the slice elements and the
\* map values, and for nothing else.
C1_VisitsEverySlotOnce ==
    (pc = "done" /\ AllReturned({"nil"})) =>
        /\ \A p \in Slots(tree) : Cardinality(CallsFor(p)) = 1
        /\ \A i \in 1..Len(calls) : calls[i].path \in Slots(tree)
        /\ calls[1].path = <<>> /\ calls[1].ptr = rootPointer

C1_Witness ==
    /\ pc = "done" /\ AllReturned({"nil"})
    /\ Len(calls) >= 5
    /\ \E i, j \in 1..Len(calls) :
         /\ calls[i].kind = "map" /\ Len(calls[i].path) = 2
         /\ calls[j].kind = "slice" /\ Len(calls[j].path) = 1

\* C2: when the visitor returns SkipAll at any node, at any depth, the visitor
\* is not called again and Walk returns nil.
C2_SkipAllEndsTheWalk ==
    /\ \A i \in 1..Len(calls) : calls[i].ret = "SkipAll" => i = Len(calls)
    /\ (pc = "done" /\ AllReturned({"nil", "Skip", "SkipAll"})) => result = "nil"

\* C3: when the visitor returns Skip at p, Walk calls the visitor for no
\* descendant of p, still calls it once for every other subschema, and returns
\* nil.
C3_SkipSuppressesDescendants ==
    (pc = "done" /\ AllReturned({"nil", "Skip"})) =>
        /\ result = "nil"
        /\ \A p \in Slots(tree) :
             LET skipped == \E j \in 1..Len(calls) :
                                calls[j].ret = "Skip" /\ IsProperPrefix(calls[j].path, p)
             IN  Cardinality(CallsFor(p)) = IF skipped THEN 0 ELSE 1

C3_Witness ==
    /\ pc = "done" /\ AllReturned({"nil", "Skip"}) /\ result = "nil"
    /\ \E i, j \in 1..Len(calls) :
         /\ i < j
         /\ calls[i].ret = "Skip" /\ Len(calls[i].path) = 1
         /\ ChildSteps(calls[i].before) # {}
         /\ Len(calls[j].path) = 1

\* C4: when the visitor returns an error other than Skip and SkipAll, at any
\* depth, the visitor is not called again and Walk returns that same error.
C4_ErrorEndsTheWalk ==
    \A i \in 1..Len(calls) :
        calls[i].ret \in Errors =>
            (i = Len(calls) /\ pc = "done" /\ result = calls[i].ret)

C4_Witness ==
    /\ pc = "done" /\ result = "err2"
    /\ Len(calls[Len(calls)].path) = 2
    /\ \E p \in Slots(tree) : CallsFor(p) = {}

\* C5: if the visitor replaces the schema at p and returns nil, Walk then
\* visits the children of the replacement, with pointers below p, and not the
\* children of the schema that stood at p before.
C5_WalksTheReplacement ==
    (pc = "done" /\ AllReturned({"nil", "Skip"})) =>
        \A i \in 1..Len(calls) :
            (calls[i].ret = "nil" /\ calls[i].after # calls[i].before) =>
                LET p == calls[i].path
                    below == { j \in 1..Len(calls) :
                                 Len(calls[j].path) = Len(p) + 1 /\ IsPrefix(p, calls[j].path) }
                IN  /\ { calls[j].path : j \in below }
                         = { Append(p, st) : st \in ChildSteps(calls[i].after) }
                    /\ \A j \in below : j > i /\ IsProperPrefix(calls[i].ptr, calls[j].ptr)

C5_Witness ==
    /\ pc = "done" /\ AllReturned({"nil"})
    /\ \E i \in 1..Len(calls) :
         /\ calls[i].kind = "map"
         /\ calls[i].after # calls[i].before
         /\ ChildSteps(calls[i].before) # {}
         /\ ChildSteps(calls[i].after) # {}
         /\ ChildSteps(calls[i].after) \cap ChildSteps(calls[i].before) = {}

\* C6: when the visitor is called for p it has already been called for every
\* proper ancestor of p, whatever the order in which the maps are ranged.
C6_ParentBeforeDescendants ==
    \A j \in 1..Len(calls) :
        \A n \in 0..(Len(calls[j].path) - 1) :
            \E i \in 1..(j - 1) : calls[i].path = SubSeq(calls[j].path, 1, n)

C6_Witness ==
    \E i, j \in 1..Len(calls) :
        /\ i < j
        /\ calls[i].kind = "map" /\ calls[j].kind = "map"
        /\ Len(calls[i].path) = 1 /\ Len(calls[j].path) = 2
        /\ calls[i].path[1].key = KeySlash
        /\ calls[j].path[1].key = KeyA

\* C7: the pointer passed to the visitor, split on "/" and unescaped per RFC
\* 6901, leads from the root back to the subschema the visitor was called for,
\* for every mapping key.
C7_PointerLeadsBack ==
    \A i \in 1..Len(calls) : Rfc6901Tokens(calls[i].ptr) = PathSegments(calls[i].path)

\* C8: once the context is cancelled, before Walk is called or while it runs,
\* Walk returns the cancelled error and the visitor is not called again.
C8_CancelEndsTheWalk ==
    /\ \A i \in 1..Len(calls) : ~calls[i].cancelled
    /\ (pc = "done" /\ cancelled) => result = "canceled"

\* C9: ResolveReference with ref "" and with ref "#" returns the starting
\* schema itself, whether the schema has an $id or a $ref of its own or not.
C9_EmptyReferenceReturnsStart ==
    (resolved # <<>> /\ resolving.ref \in {<<>>, RefRoot}) =>
        resolved[1] = Ok(resolving.current)

\* C10: ResolveReference returns, with a schema or with an error, on every
\* document; a $ref that leads back to the schema that holds it, directly or
\* through other $refs, does not make it recurse without end.
C10_ResolveReferenceReturns ==
    resolved # <<>> => resolved[1].kind # "overflow"

\* C11: ResolveReference never modifies the schemas it is given: after the
\* call, whether it returned a schema or failed, the document of the starting
\* schema is equal to what it was before the call.
C11_SchemasUnchanged ==
    resolved # <<>> => document = resolving.current[1].root

C11_Witness ==
    /\ resolved # <<>> /\ resolved[1].kind = "err"
    /\ document.OneOf # <<>> /\ document.OneOf[1].ID # <<>>
    /\ resolving.ref = RefTo(kwOneOf)

\* C12: for a pointer segment allOf, anyOf, oneOf or prefixItems over a
\* sequence of n schemas, ResolveReference returns element i when the next
\* segment is an index i < n, fails with "index out of bounds" when i >= n,
\* with "invalid array index" when the next segment is not a number and with
\* "missing array index" when there is no next segment.
C12_ArraySegments ==
    \A k \in 1..Len(sliceKeywords) :
        LET keyword == sliceKeywords[k].keyword
            step(i) == sliceStep(sliceKeywords[k].field, i + 1)
            n == Len(document[sliceKeywords[k].field])
            index == [ seg \in { <<"0">>, <<"1">>, <<"2">> } |->
                         IF seg = <<"0">> THEN 0 ELSE IF seg = <<"1">> THEN 1 ELSE 2 ]
        IN  /\ (resolved # <<>> /\ resolving.ref = RefTo(keyword)) =>
                   resolved[1] = Err(<<"resolveRef: missing array index">>)
            /\ \A seg \in IndexSegments :
                   (resolved # <<>> /\ resolving.ref = RefInto(keyword, seg)) =>
                       resolved[1] =
                           IF seg \notin DOMAIN index
                           THEN Err(<<"resolveRef: invalid array index">>)
                           ELSE IF index[seg] >= n
                           THEN Err(<<"resolveRef: index out of bounds">>)
                           ELSE Ok(ChildHandle(resolving.current, step(index[seg])))

C12_Witness ==
    /\ resolved # <<>>
    /\ resolving.ref = RefInto(kwPrefixItems, <<"2">>)
    /\ Len(document.PrefixItems) = 2
    /\ resolved[1] = Err(<<"resolveRef: index out of bounds">>)

\* C13: pointer segments are unescaped by replacing "~1" with "/" and then
\* "~0" with "~": the resolver looks up the $defs key "fo~o" for the segment
\* "fo~0o", "ba/r" for "ba~1r", and "~1", never "/", for "~01".
C13_UnescapeOrder ==
    \A seg \in EscapedSegments :
        LET key == Rfc6901Tokens(<<Slash>> \o seg)[1]
        IN  (resolved # <<>> /\ resolving.ref = RefInto(kwDefs, seg)
                             /\ key \in DOMAIN document.Defs) =>
                resolved[1] = Ok(ChildHandle(resolving.current, mapStep("Defs", key)))

\* C14: resolving a reference whose URI is not embedded in the document
\* returns an error and no schema when no external loader is configured and
\* when the configured loader returns an error; it never crashes and never
\* returns a nil schema with a nil error.
C14_ExternalWithoutLoaderFails ==
    ( /\ resolved # <<>>
      /\ \/ resolving.ref \in {RefExternal, RefExternalMissing} /\ resolving.config.Loader = "nil"
         \/ resolving.ref = RefExternalMissing /\ resolving.config.Loader = "embedded" )
    => resolved[1].kind = "err"

(***************************************************************************)
(* Properties of ComputeIdentifiers.                                       *)
(***************************************************************************)
RECURSIVE PointerOfSegments(_)
PointerOfSegments(segs) ==
    IF segs = <<>> THEN <<>> ELSE <<Slash>> \o Head(segs) \o PointerOfSegments(Tail(segs))

\* the pointer that leads from the schema at slot q to the schema at slot p
PointerFrom(q, p) == PointerOfSegments(PathSegments(SubSeq(p, Len(q) + 1, Len(p))))

\* the slots of the subschemas of the document that declare $id or $anchor
Named == { p \in Slots(document) \ {<<>>} :
             SubAt(document, p).ID # <<>> \/ SubAt(document, p).Anchor # <<>> }

\* C15: the keys of the map ComputeIdentifiers returns are exactly the
\* pointers, from the document root, of the subschemas other than the root
\* that declare a non-empty $id or a non-empty $anchor, those nested in
\* embedded resources included.
C15_KeysAreNamedSubschemas ==
    identifiers # <<>> =>
        { e.ptr : e \in identifiers[1] } = { PointerFrom(<<>>, p) : p \in Named }

RECURSIVE BaseAt(_)
\* the base URI in force at slot p: the $id of the schema there, resolved
\* against the base in force around it, or else the base around it; at the
\* root, the document's $id
BaseAt(p) ==
    IF p = <<>> THEN urlString(urlParse(document.ID))
    ELSE LET outer == BaseAt(SubSeq(p, 1, Len(p) - 1))
             id == SubAt(document, p).ID
         IN  IF id = <<>> THEN outer
             ELSE urlString(urlResolveReference(urlParse(outer), urlParse(id)))

\* the roots of the resources the schema at slot p lies in: the document
\* root and every schema on the way to p, p included, that declares $id
ResourcesAround(p) ==
    { q \in Slots(document) : IsPrefix(q, p) /\ (q = <<>> \/ SubAt(document, q).ID # <<>>) }

\* the root of the resource the schema at slot p belongs to
Owner(p) ==
    CHOOSE q \in ResourcesAround(p) : \A r \in ResourcesAround(p) : Len(r) <= Len(q)

\* C16: a subschema that declares $id is recorded with its own resolved $id
\* as BaseURI and BaseURI + "#" as CanonResourcePointerURI; one that does not
\* is recorded with the resolved $id of its nearest $id-declaring ancestor (or
\* the document base) as BaseURI and BaseURI + "#" + the pointer from that
\* ancestor as CanonResourcePointerURI.
C16_LocalToItsResource ==
    identifiers # <<>> =>
        \A e \in identifiers[1] : \A p \in Named :
            PointerFrom(<<>>, p) = e.ptr =>
                /\ e.ids.BaseURI = BaseAt(p)
                /\ e.ids.CanonResourcePointerURI
                       = BaseAt(p) \o <<Hash>> \o PointerFrom(Owner(p), p)

\* the schema under prefixItems, without $id, inside two nested resources
C16_Witness ==
    /\ identifiers # <<>>
    /\ document.ID = AbsoluteID
    /\ \E e \in identifiers[1] :
         /\ e.ptr = PointerFrom(<<>>, <<mapStep("Defs", KeyA), ptrStep("Items"), sliceStep("PrefixItems", 1)>>)
         /\ e.ids.CanonResourcePointerURI = <<"s", ":", "/", "/", "h", "/", "p", "#", "/", "p", "r", "e", "f", "i", "x", "I", "t", "e", "m", "s", "/", "0">>

\* C17: in every record ComputeIdentifiers returns, for every root, with or
\* without $id, BaseURI is non-empty and CanonResourcePointerURI is
\* non-empty.
C17_BaseURINonEmpty ==
    identifiers # <<>> =>
        \A e \in identifiers[1] :
            e.ids.BaseURI # <<>> /\ e.ids.CanonResourcePointerURI # <<>>

\* the URIs of the schema at slot p in the resources around it other than the
\* one it belongs to
EnclosingURIs(p) ==
    { BaseAt(q) \o <<Hash>> \o PointerFrom(q, p) : q \in ResourcesAround(p) \ {Owner(p)} }

\* C18: the EnclosingResourceURIs of the record of a subschema are exactly
\* the URIs B + "#" + q over the resources around it other than its own (the
\* outer $id-declaring ancestors and the document root), B the base URI of
\* the resource and q the pointer from its root; a subschema without $id
\* directly in the root resource has none.
C18_EnclosingResourceURIs ==
    identifiers # <<>> =>
        \A e \in identifiers[1] : \A p \in Named :
            PointerFrom(<<>>, p) = e.ptr =>
                LET enc == e.ids.EnclosingResourceURIs
                IN  /\ { enc[i] : i \in 1..Len(enc) } = EnclosingURIs(p)
                    /\ Len(enc) = Cardinality(EnclosingURIs(p))

\* the schema under prefixItems inside two nested resources: two enclosing
\* URIs, of the outer resource and of the document
C18_Witness ==
    /\ identifiers # <<>>
    /\ document.ID = AbsoluteID
    /\ \E e \in identifiers[1] :
         /\ e.ptr = PointerFrom(<<>>, <<mapStep("Defs", KeyA), ptrStep("Items"), sliceStep("PrefixItems", 1)>>)
         /\ e.ids.BaseURI = <<"s", ":", "/", "/", "h", "/", "p">>
         /\ e.ids.EnclosingResourceURIs = << <<"s", ":", "/", "/", "h", "/", "o", "#", "/", "i", "t", "e", "m", "s", "/", "p", "r", "e", "f", "i", "x", "I", "t", "e", "m", "s", "/", "0">>,
                                             <<"s", ":", "/", "/", "h", "/", "r", "#", "/", "$", "d", "e", "f", "s", "/", "a", "/", "i", "t", "e", "m", "s", "/", "p", "r", "e", "f", "i", "x", "I", "t", "e", "m", "s", "/", "0">> >>

\* C19: each URI of an identifier record (the canonical pointer URI, the
\* canonical plain URI if present, also on a subschema with both $id and
\* $anchor, and each enclosing resource URI), looked up through the local
\* loader built from the root, yields the subschema at the record's pointer.
C19_IdentifierRoundTrip ==
    (identifiers # <<>> /\ resolved # <<>>) =>
        \A e \in identifiers[1] : \A p \in Named :
            (PointerFrom(<<>>, p) = e.ptr /\ resolving.ref \in RecordURIs(e.ids)) =>
                resolved[1] = Ok(Handle(document, p))

\* C20: a second call of ResolveReference with the same reference, the same
\* starting schema and the same external loader returns what the first call
\* returned, whatever the order in which the maps are ranged over, also when
\* $anchor or $id values occur more than once in the document.
C20_Deterministic ==
    resolved # <<>> =>
        \A o \in ResolveReference(resolving.config, resolving.ref, resolving.current, {}) :
            o = resolved[1]

(***************************************************************************)
(* Properties of Copy.                                                     *)
(***************************************************************************)
\* C21: Copy(s) is equal to s by value in every keyword, enum, const,
\* default and examples being compared by their JSON.
C21_CopyEqualByValue ==
    snapshot # <<>> => snapshot[1].dst = snapshot[1].src

\* C22: Copy(s) shares no mutable storage with s: a write through a map, a
\* slice or a pointer reachable from the copy leaves s as it was, and a write
\* through one reachable from s leaves the copy as it was.
C22_CopySharesNothing ==
    snapshot # <<>> =>
        /\ snapshot[1].touched = "dst" => Value(heap, srcSchema[1]) = snapshot[1].src
        /\ snapshot[1].touched = "src" => Value(heap, dstSchema[1]) = snapshot[1].dst

\* a write to the not of the subschema under the copy's $defs has changed the
\* copy
C22_Witness ==
    /\ snapshot # <<>>
    /\ snapshot[1].touched = "dst"
    /\ srcSchema[1].Defs # Nil
    /\ Value(heap, dstSchema[1]).Defs[1]["a"].Not # snapshot[1].dst.Defs[1]["a"].Not

(***************************************************************************)
(* Properties of ValidateReferencePointer and IsArrayIndex.                *)
(***************************************************************************)
\* an array index: "0", or decimal digits without leading zero and without
\* sign
ArrayIndex(seg) ==
    seg = <<"0">> \/ (seg # <<>> /\ seg[1] # "0" /\ \A j \in 1..Len(seg) : isDigit(seg[j]))

RECURSIVE Units(_)
\* the segments read as units of the schema grammar: "ok", or why they are
\* not a sequence of units
Units(segs) ==
    IF segs = <<>> THEN "ok"
    ELSE IF Head(segs) \in keywordsOf(children) THEN Units(Tail(segs))
    ELSE IF Head(segs) \in keywordsOf(sliceKeywords)
    THEN IF Len(segs) = 1 THEN ErrPtrNoSchema
         ELSE IF ArrayIndex(segs[2]) THEN Units(Tail(Tail(segs)))
         ELSE InvalidIndexError
    ELSE IF Head(segs) \in keywordsOf(mapKeywords)
    THEN IF Len(segs) = 1 THEN ErrPtrNoSchema ELSE Units(Tail(Tail(segs)))
    ELSE ErrPtrUnknownKeyword

\* the pointer of a same-document pointer reference: the reference, or what
\* follows its "#"
IsPointerReference(r) ==
    r = <<>> \/ r[1] = Slash \/ (r[1] = Hash /\ (Len(r) = 1 \/ r[2] = Slash))
PointerOfReference(r) == IF r # <<>> /\ r[1] = Hash THEN Tail(r) ELSE r

SegmentsOfPointer(p) == IF p = <<>> \/ p = <<Slash>> THEN <<>> ELSE Split(Tail(p), Slash)

LexicallyValid(p) ==
    \A i \in 1..Len(SegmentsOfPointer(p)) : ~badTilde(SegmentsOfPointer(p)[i])

\* C23: ValidateReferencePointer accepts a same-document pointer exactly if
\* it is a lexically valid RFC 6901 pointer whose segments are a sequence of
\* units of the schema grammar (a single-schema keyword, an array applicator
\* and an index, a mapping keyword and any key); it rejects an applicator as
\* final segment with 'does not point to schema' and any other segment in
\* keyword position with 'unknown keyword'.
C23_AcceptsTheSchemaGrammar ==
    ( /\ validated # <<>>
      /\ validating.fn = "ValidateReferencePointer"
      /\ IsPointerReference(validating.arg) ) =>
        LET p == PointerOfReference(validating.arg)
            units == Units(SegmentsOfPointer(p))
        IN  /\ validated[1] = NoError <=> (LexicallyValid(p) /\ units = "ok")
            /\ (LexicallyValid(p) /\ units \in {ErrPtrNoSchema, ErrPtrUnknownKeyword})
                   => validated[1].err = units

\* C24: IsArrayIndex(segment) is true exactly if the segment is "0" or a
\* non-empty string of decimal digits without leading zero and without sign;
\* it is false for the empty string.
C24_IsArrayIndex ==
    (validated # <<>> /\ validating.fn = "IsArrayIndex") =>
        (validated[1] <=> ArrayIndex(validating.arg))

(***************************************************************************)
(* Further properties of ResolveReference.                                 *)
(***************************************************************************)
\* the schema a $ref of the embedded resource at $defs/b leads to, if it is
\* resolved within that resource and against its base URI
WithinB(ref) ==
    IF ref = RefDefsA
    THEN Handle(document, <<mapStep("Defs", <<"b">>), mapStep("Defs", <<"a">>)>>)
    ELSE Handle(document, <<mapStep("Defs", <<"c">>)>>)

\* C25: a subschema with $id that the traversal passes through or ends at
\* becomes the current resource: a "#/..." $ref dereferenced from there is
\* traversed from the root of that embedded resource, and a relative URI
\* $ref is resolved against its base URI, not against the document root.
C25_EmbeddedResourceIsAdopted ==
    (resolved # <<>> /\ document \in EmbeddedDocuments) =>
        LET b == document.Defs[<<"b">>]
        IN  /\ resolving.ref = RefItemsOfB => resolved[1] = Ok(WithinB(b.Items[1].Ref))
            /\ (resolving.ref = RefDefsB /\ b.Ref # <<>>) => resolved[1] = Ok(WithinB(b.Ref))

\* C26: the resolver dereferences a $ref only on the node at which the
\* pointer path is exhausted; the $ref of a node in the middle of the path
\* is not followed, and the next segment is looked up in that node's own
\* keywords.
C26_RefOnlyAtTheEnd ==
    (resolved # <<>> /\ document \in PassingDocuments /\ resolving.ref = RefItemsOfA) =>
        resolved[1] = Ok(Handle(document, <<mapStep("Defs", <<"a">>), ptrStep("Items")>>))

\* C27: a pointer with an empty last segment is an error unless it is ""
\* or "/": ResolveReference on "#/items/" fails, for the unknown keyword ""
\* after /items, and does not return the schema at /items.
C27_EmptyLastSegmentFails ==
    (resolved # <<>> /\ document \in ItemsDocuments /\ resolving.ref = RefItemsSlash) =>
        /\ resolved[1].kind = "err"
        /\ resolved[1] # Ok(Handle(document, <<ptrStep("Items")>>))

\* C28: when a segment names a single-schema keyword that the current
\* schema does not have, ResolveReference fails with a 'missing schema'
\* error; it does not return without a schema and without an error.
C28_MissingSchemaFails ==
    ( /\ resolved # <<>>
      /\ document \in ItemsDocuments
      /\ resolving.ref \in {RefMissing, RefMissingBelow} ) =>
        resolved[1].kind = "err"


(***************************************************************************)
(* Further properties of Walk.                                             *)
(***************************************************************************)
\* C29: a write the visitor makes through its handle is in the tree once
\* Walk has returned, whatever the visitor returned after writing: for the
\* value of a map as for a slice element or a single-keyword child.
C29_WritesAreStored ==
    pc = "done" =>
        \A i \in 1..Len(calls) :
            (calls[i].after # calls[i].before /\ calls[i].ret # "nil") =>
                SubAt(tree, calls[i].path) = calls[i].after

\* C30: a reference "#/..." for which ResolveReference returns a schema is
\* one ValidateReferencePointer accepts, and an index segment with a sign or
\* a leading zero ends in an error: it selects no element and indexes
\* nothing outside the sequence.
C30_ResolvesOnlyValidPointers ==
    ( /\ resolved # <<>>
      /\ Len(resolving.ref) > 1
      /\ SubSeq(resolving.ref, 1, 2) = <<Hash, Slash>> ) =>
        /\ (resolved[1].kind = "ok" /\ resolved[1].schema # NilSchema) =>
               ValidateReferencePointer(resolving.ref) = NoError
        /\ resolving.ref \in SignedRefs => resolved[1].kind = "err"
====
